---- MODULE Spec2Model ----
(***************************************************************************)
(* A model of the Gravis UltraSound GF1 emulation of src/hardware/gus.cpp. *)
(*                                                                         *)
(* Representation.                                                         *)
(*  - TLC's integers are 32 bits wide, so a uint32_t of the source is held *)
(*    as its 32-bit pattern read as a two's complement number: u below     *)
(*    2^31 is held as u, u from 2^31 on as u - 2^32.  Add32 and Sub32 wrap *)
(*    as the machine does, Shr32 is the logical shift, ULe the unsigned    *)
(*    comparison.  An int32_t of the source is the held number itself.     *)
(*  - The 32-bit bitmaps WaveIRQ, RampIRQ and ActiveMask are held as the   *)
(*    set of the positions of their set bits.                              *)
(*  - GUSRam is held sparsely: a function from the addresses that hold a   *)
(*    non-zero byte to that byte; every other byte of the 1 MiB is 0.      *)
(*  - A float is an IEEE single-precision number, held as its 32-bit      *)
(*    pattern with the sign taken out: 0 for 0.0, for x > 0 the pattern of *)
(*    x (biased exponent * 2^23 + fraction) and for x < 0 minus the        *)
(*    pattern of -x.  The held numbers are ordered as the floats are, so   *)
(*    <, Max and Abs apply to them directly.  FAdd, FMul and FDiv round to *)
(*    nearest, ties to even, as the machine does.                          *)
(*  - Unspec stands for a value the program does not determine: what a     *)
(*    read outside an array finds, and whatever is computed from it.  It   *)
(*    is no byte, no int16_t and no float pattern; an operation on Unspec  *)
(*    yields Unspec.  Subnormal numbers, the infinities and NaN are       *)
(*    floats like the others (a read outside an array may find one); the   *)
(*    sign of a zero and of a NaN and the payload of a NaN are not held,   *)
(*    since nothing in the program tells them apart.                       *)
(***************************************************************************)
EXTENDS Integers, Sequences, FiniteSets, TLC

VARIABLES
    myGUS,      \* struct GFGus myGUS
    guschan,    \* guschan[0..31], the 32 GUSChannels objects
    curchan,    \* index of the selected voice, NoChan for nullptr
    GUSRam,     \* the 1 MiB sample memory (sparse)
    adlib_commandreg,
    ext,        \* the collaborators: mixer channel, PIC event queue, DMA
    pic,        \* IRQ lines PIC_ActivateIRQ was called for by the last handler
    hang,       \* TRUE once the search loop of CheckVoiceIrq failed to end
    fault,      \* the signal that ended the process, "none" while it runs
    mix,        \* what the last GUS_CallBack produced
    host        \* the host's last operation and the counts the claims refer to

vars == <<myGUS, guschan, curchan, GUSRam, adlib_commandreg, ext, pic, hang,
          fault, mix, host>>

-----------------------------------------------------------------------------
(* Program constants *)

WAVE_FRACT == 9
GUS_MIN_CHANNELS == 14
GUS_MAX_CHANNELS == 32
GUS_BUFFER_FRAMES == 64
GUS_PAN_POSITIONS == 16
GUS_VOLUME_POSITIONS == 4096
GUS_RAM_SIZE == 1048576
WCTRL_STOPPED == 1
WCTRL_STOP == 2
WCTRL_16BIT == 4
WCTRL_LOOP == 8
WCTRL_BIDIRECTIONAL == 16
WCTRL_IRQENABLED == 32
WCTRL_DECREASING == 64
INT16_MAX == 32767

WAVE_FRACT_ONE == 2^WAVE_FRACT
NoChan == 0 - 1
Voices == 0 .. (GUS_MAX_CHANNELS - 1)

-----------------------------------------------------------------------------
(* Machine arithmetic *)

Bit(v, i) == (v \div (2^i)) % 2

HasBits(v, m) == \E i \in 0..7 : Bit(v, i) = 1 /\ Bit(m, i) = 1

SetBit(v, i) == IF Bit(v, i) = 1 THEN v ELSE v + 2^i

ClearBit(v, i) == IF Bit(v, i) = 1 THEN v - 2^i ELSE v

FlipBit(v, i) == IF Bit(v, i) = 1 THEN v - 2^i ELSE v + 2^i

Min(a, b) == IF a < b THEN a ELSE b

Max(a, b) == IF a > b THEN a ELSE b

Abs(a) == IF a < 0 THEN 0 - a ELSE a

Lo16(a) == a % 65536

Hi16(a) == a \div 65536

Wrap16(h) == ((h + 32768) % 65536) - 32768

Add32(a, b) ==
    LET lo == Lo16(a) + Lo16(b)
        hi == Wrap16(Hi16(a) + Hi16(b) + (lo \div 65536))
    IN  hi * 65536 + (lo % 65536)

Sub32(a, b) ==
    LET lo == Lo16(a) - Lo16(b)
        hi == Wrap16(Hi16(a) - Hi16(b) - (IF lo < 0 THEN 1 ELSE 0))
    IN  hi * 65536 + (lo % 65536)

\* a >> k on a uint32_t, 1 <= k <= 31
Shr32(a, k) == IF a >= 0 THEN a \div (2^k) ELSE (a \div (2^k)) + 2^(32 - k)

\* a <= b on uint32_t
ULe(a, b) == IF (a >= 0) = (b >= 0) THEN a <= b ELSE a >= 0

\* the bits of 0xffffffff >> k, 0 <= k <= 31
OnesShr(k) == {i \in 0..31 : i + k <= 31}

\* ceil_udivide of support.h: the least integer not below x / y
ceil_udivide(x, y) == IF x # 0 THEN 1 + ((x - 1) \div y) ELSE 0

\* a value the program does not determine
Unspec == (0 - 2147483647) - 1

-----------------------------------------------------------------------------
(* IEEE single precision *)

\* the number of bits of m, 1 <= m < 2^31
BitLen(m) == CHOOSE L \in 1 .. 31 : m \div 2^(L - 1) = 1

\* the exponent field of a float
FExp(f) == Abs(f) \div 2^23

\* +infinity, and the NaN the operations yield (a NaN's sign and payload are
\* never looked at: no conversion and no comparison tells two NaNs apart)
Inf == 255 * 2^23

NaN == Inf + 2^22

IsNaN(f) == f # Unspec /\ Abs(f) > Inf

IsInf(f) == f # Unspec /\ Abs(f) = Inf

\* the sign of the product or quotient of a and b
SignOf(a, b) == IF (a < 0) = (b < 0) THEN 1 ELSE 0 - 1

\* a float other than 0.0 is FMant(f) * 2^(FScale(f) - 150), a subnormal one
\* having exponent field 0 and no hidden bit
FScale(f) == IF FExp(f) = 0 THEN 1 ELSE FExp(f)

FMant(f) == IF FExp(f) = 0 THEN Abs(f) ELSE 2^23 + (Abs(f) % 2^23)

\* the same with the significand shifted up to 24 bits
NMant(f) == IF FExp(f) = 0 THEN Abs(f) * 2^(24 - BitLen(Abs(f)))
            ELSE FMant(f)

NScale(f) == IF FExp(f) = 0 THEN BitLen(Abs(f)) - 23 ELSE FExp(f)

\* the float of sign and q * 2^(e - 150), where e >= 1, q <= 2^24, and
\* q < 2^23 only if e = 1 (a subnormal number, or 0.0); infinity when the
\* exponent is above the largest
FPack(sign, e, q) ==
    IF (IF q = 2^24 THEN e + 1 ELSE e) > 254 THEN sign * Inf
    ELSE sign * ((e - 1) * 2^23 + q)

\* the float of sign, exponent e and the significand q rounded to nearest,
\* ties to even, given the bits r cut off below q, half their weight, and
\* whether more was cut off below them (sticky)
FNearest(sign, e, q, r, half, sticky) ==
    IF r > half \/ (r = half /\ (sticky \/ q % 2 = 1))
    THEN FPack(sign, e, q + 1)
    ELSE FPack(sign, e, q)

\* FRound with sh the places m is shifted down by: those that leave 24
\* bits, or more where the exponent would fall below 1 (gradual underflow)
FRoundBy(sign, m, e, sticky, sh) ==
    IF sh > 31 THEN 0
    ELSE IF sh = 31 THEN FNearest(sign, e + sh, 0, m, 2^30, sticky)
    ELSE IF sh > 0
    THEN FNearest(sign, e + sh, m \div 2^sh, m % 2^sh, 2^(sh - 1), sticky)
    ELSE FPack(sign, e + sh, m * 2^(0 - sh))

\* the float nearest to sign * (m + t) * 2^(e - 150), ties to even, where
\* 0 < m < 2^31, and t = 0 unless sticky, when 0 < t < 1 and m >= 2^25
FRound(sign, m, e, sticky) ==
    FRoundBy(sign, m, e, sticky, Max(BitLen(m) - 24, 1 - e))

\* static_cast<float> of an integer
FFromInt(n) == IF n = Unspec THEN Unspec
               ELSE IF n = 0 THEN 0
               ELSE FRound(IF n < 0 THEN 0 - 1 ELSE 1, Abs(n), 150, FALSE)

\* the float product a * b
FMul(a, b) ==
    LET a1 == NMant(a) \div 4096
        a0 == NMant(a) % 4096
        b1 == NMant(b) \div 4096
        b0 == NMant(b) % 4096
        mid == a1 * b0 + a0 * b1
        low == (mid % 4096) * 4096 + a0 * b0
        hi == a1 * b1 + (mid \div 4096) + (low \div 2^24)
        lo == low % 2^24
    IN  IF a = Unspec \/ b = Unspec THEN Unspec
        ELSE IF IsNaN(a) \/ IsNaN(b) THEN NaN
        ELSE IF IsInf(a) \/ IsInf(b)
        THEN (IF a = 0 \/ b = 0 THEN NaN ELSE SignOf(a, b) * Inf)
        ELSE IF a = 0 \/ b = 0 THEN 0
        ELSE FRound(SignOf(a, b), hi * 64 + (lo \div 2^18),
                    NScale(a) + NScale(b) - 132, lo % 2^18 # 0)

\* a * 2^k, which is exact where a and the result are normal numbers
FShift(a, k) == IF a = Unspec THEN Unspec
                ELSE IF a = 0 THEN 0
                ELSE IF FExp(a) \in 1 .. 254 /\ FExp(a) + k \in 1 .. 254
                THEN (IF a < 0 THEN a - k * 2^23 ELSE a + k * 2^23)
                ELSE FMul(a, (127 + k) * 2^23)

\* the float quotient a / b
FDiv(a, b) ==
    LET d == NMant(b)
        n1 == NMant(a) * 128
        n2 == (n1 % d) * 128
        n3 == (n2 % d) * 128
        n4 == (n3 % d) * 64
        q == (((n1 \div d) * 128 + (n2 \div d)) * 128 + (n3 \div d)) * 64
                 + (n4 \div d)
    IN  IF a = Unspec \/ b = Unspec THEN Unspec
        ELSE IF IsNaN(a) \/ IsNaN(b) THEN NaN
        ELSE IF IsInf(a) THEN (IF IsInf(b) THEN NaN ELSE SignOf(a, b) * Inf)
        ELSE IF IsInf(b) THEN 0
        ELSE IF b = 0 THEN (IF a = 0 THEN NaN ELSE SignOf(a, 1) * Inf)
        ELSE IF a = 0 THEN 0
        ELSE FRound(SignOf(a, b), q, NScale(a) - NScale(b) + 123,
                    n4 % d # 0)

\* the float sum a + b
FAdd(a, b) ==
    LET big == IF Abs(a) >= Abs(b) THEN a ELSE b
        small == IF Abs(a) >= Abs(b) THEN b ELSE a
        d == FScale(big) - FScale(small)
        mb == FMant(big) * 64
        ms == (FMant(small) * 64) \div 2^d
        sticky == (FMant(small) * 64) % 2^d # 0
        same == (big < 0) = (small < 0)
        m == IF same THEN mb + ms
             ELSE IF sticky THEN mb - ms - 1 ELSE mb - ms
    IN  IF a = Unspec \/ b = Unspec THEN Unspec
        ELSE IF IsNaN(a) \/ IsNaN(b) THEN NaN
        ELSE IF IsInf(big)
        THEN (IF IsInf(small) /\ ~same THEN NaN ELSE big)
        ELSE IF small = 0 THEN big
        ELSE IF d > 25 THEN big
        ELSE IF m = 0 THEN 0
        ELSE FRound(IF big < 0 THEN 0 - 1 ELSE 1, m, FScale(big) - 6, sticky)

\* the float difference a - b
FSub(a, b) == IF b = Unspec THEN Unspec ELSE FAdd(a, 0 - b)

\* fabs
FAbs(a) == IF a = Unspec THEN Unspec ELSE Abs(a)

\* a < b on floats, which is false of a NaN; a and b are not Unspec
FLess(a, b) == ~IsNaN(a) /\ ~IsNaN(b) /\ a < b

\* std::max(a, b), which is a < b ? b : a, and std::min(a, b), which is
\* b < a ? b : a
FMax(a, b) == IF a = Unspec \/ b = Unspec THEN Unspec
              ELSE IF FLess(a, b) THEN b ELSE a

FMin(a, b) == IF a = Unspec \/ b = Unspec THEN Unspec
              ELSE IF FLess(b, a) THEN b ELSE a

\* the integer part of a float of magnitude below 2^31, toward zero
FTrunc(f) ==
    LET e == FScale(f) - 150
        t == IF e >= 0 THEN FMant(f) * 2^e
             ELSE IF e < 0 - 24 THEN 0
             ELSE FMant(f) \div 2^(0 - e)
    IN  IF f = Unspec THEN Unspec
        ELSE IF f = 0 THEN 0 ELSE IF f < 0 THEN 0 - t ELSE t

-----------------------------------------------------------------------------
(* Tables *)

\* A number held to 56 binary places: <<l1, l2, l3, l4, e>> is
\* (((l1 * Limb + l2) * Limb + l3) * Limb + l4) * 2^(e - 56) with
\* Limb / 2 <= l1 < Limb
Limb == 2^14

\* the double GUS_VOLUME_SCALE_DIV^-(2^k), k = 0..11
VolPow ==
    <<<<16339, 11999, 5329, 11322, 0>>,
      <<16295, 9574, 4468, 2940, 0>>,
      <<16207, 10581, 14246, 11578, 0>>,
      <<16033, 3112, 8514, 1032, 0>>,
      <<15689, 14604, 11702, 10186, 0>>,
      <<15025, 3092, 2879, 1040, 0>>,
      <<13779, 1160, 6800, 1632, 0>>,
      <<11588, 5000, 13616, 27, 0>>,
      <<8196, 5554, 370, 14942, 0>>,
      <<8200, 11145, 11451, 11626, 0 - 1>>,
      <<8209, 6058, 1514, 2725, 0 - 3>>,
      <<8226, 12719, 9858, 10756, 0 - 7>>>>

\* the product of two such numbers
Mul56(a, b) ==
    LET s6 == a[2] * b[4] + a[3] * b[3] + a[4] * b[2]
        s5 == a[1] * b[4] + a[2] * b[3] + a[3] * b[2] + a[4] * b[1]
                  + (s6 \div Limb)
        s4 == a[1] * b[3] + a[2] * b[2] + a[3] * b[1] + (s5 \div Limb)
        s3 == a[1] * b[2] + a[2] * b[1] + (s4 \div Limb)
        s2 == a[1] * b[1] + (s3 \div Limb)
        l1 == s2 \div Limb
        l2 == s2 % Limb
        l3 == s3 % Limb
        l4 == s4 % Limb
        h == Limb \div 2
    IN  IF l1 >= h THEN <<l1, l2, l3, l4, a[5] + b[5]>>
        ELSE <<2 * l1 + (l2 \div h), 2 * (l2 % h) + (l3 \div h),
               2 * (l3 % h) + (l4 \div h), 2 * (l4 % h), a[5] + b[5] - 1>>

\* vol_scalars[i] as PopulateVolScalars leaves it: 0.0 at 0, 1.0 at 4095 and
\* one division of the double by GUS_VOLUME_SCALE_DIV per step down, each
\* entry converted to float
vol_scalars(i) ==
    LET n == (GUS_VOLUME_POSITIONS - 1) - i
        f[k \in 0..12] ==
            IF k = 12 THEN <<Limb \div 2, 0, 0, 0, 1>>
            ELSE IF Bit(n, k) = 1 THEN Mul56(f[k + 1], VolPow[k + 1])
                 ELSE f[k + 1]
    IN  IF i = 0 THEN 0
        ELSE FRound(1, f[0][1] * 4096 + (f[0][2] \div 4), f[0][5] + 124,
                    f[0][2] % 4 # 0 \/ f[0][3] # 0 \/ f[0][4] # 0)

\* pan_scalars[pos] as PopulatePanScalars leaves it: the floats of the cos
\* and sin of the double (norm + 1) * pi / 4, with norm the float quotient
\* (pos - 7.0f) / (pos < 7 ? 7 : 8); the cos of the double pi / 2 is
\* 6.1e-17, not 0
PanLeft ==
    <<1065353216, 1065247724, 1064932576, 1064411735, 1063691749,
      1062781675, 1061692956, 1060439283, 1059219353, 1057896922,
      1056004842, 1053028117, 1049927729, 1044891074, 1036565814,
      613232946>>

PanRight ==
    <<0, 1038437793, 1046731910, 1051269718, 1054746114, 1057502017,
      1059036423, 1060439283, 1061544963, 1062525745, 1063372184,
      1064076126, 1064630795, 1065030846, 1065272429, 1065353216>>

pan_scalars(pos) == [left |-> PanLeft[pos + 1], right |-> PanRight[pos + 1]]

-----------------------------------------------------------------------------
(* Sample memory *)

Peek(ram, a) == IF a \in DOMAIN ram THEN ram[a] ELSE 0

\* Poke that stores one byte further on
PokeNext(ram, a, v) ==
    IF v = 0 THEN [x \in (DOMAIN ram) \ {a + 1} |-> ram[x]]
    ELSE [x \in (DOMAIN ram) \cup {a + 1} |-> IF x = a + 1 THEN v ELSE ram[x]]

Poke(ram, a, v) ==
    IF v = 0 THEN [x \in (DOMAIN ram) \ {a} |-> ram[x]]
    ELSE [x \in (DOMAIN ram) \cup {a} |-> IF x = a THEN v ELSE ram[x]]

\* static_cast<int8_t> of a byte
Int8(b) == IF b = Unspec THEN Unspec ELSE IF b >= 128 THEN b - 256 ELSE b

\* GUSRam[a]; a read past the end of the array finds what lies behind the
\* array at that index: the byte behind names for it, and a byte the program
\* does not determine where behind names none
ReadRam(ram, a, behind) ==
    IF a < GUS_RAM_SIZE THEN Peek(ram, a)
    ELSE IF a \in DOMAIN behind THEN behind[a]
    ELSE Unspec

-----------------------------------------------------------------------------
(* class GUSChannels.  v is one voice, a record of its members. *)

NewChannel ==
    [getSample |-> "GetSample8",
     WaveStart |-> 0, WaveEnd |-> 0, WaveAddr |-> 0, WaveAdd |-> 0,
     WaveCtrl |-> 3, WaveFreq |-> 0,
     StartVolIndex |-> 0, EndVolIndex |-> 0, CurrentVolIndex |-> 0,
     IncrVolIndex |-> 0, RampRate |-> 0, RampCtrl |-> 3, PanPot |-> 7]

\* UseAddr8 one byte further on
UseAddr8Next(v) == Shr32(v.WaveAddr, WAVE_FRACT) + 1

\* the index GetSample8 reads the current sample at
UseAddr8(v) == Shr32(v.WaveAddr, WAVE_FRACT)

\* the index GetSample8 reads the next sample at
NextAddr8(v) == (UseAddr8(v) + 1) % GUS_RAM_SIZE

\* the float GetSample8 returns; diff is the difference of two converted
\* integers, so that diff * scale is 0.0 when scale is, whatever was read
GetSample8(v, ram, behind) ==
    LET w1 == FFromInt(Int8(ReadRam(ram, UseAddr8(v), behind)))
        w2 == FFromInt(Int8(ReadRam(ram, NextAddr8(v), behind)))
        diff == FSub(w2, w1)
        scale == FShift(FFromInt(v.WaveAddr % WAVE_FRACT_ONE), 0 - WAVE_FRACT)
    IN  IF v.WaveAdd < WAVE_FRACT_ONE
        THEN FShift(IF scale = 0 THEN w1 ELSE FAdd(w1, FMul(diff, scale)), 8)
        ELSE FShift(w1, 8)

\* the index GetSample16 reads the low byte of the current sample at
UseAddr16(v) ==
    LET base == Shr32(v.WaveAddr, WAVE_FRACT)
        holdAddr == ((base \div 262144) % 4) * 262144
    IN  holdAddr + (base % 131072) * 2

\* the float GetSample16 returns
GetSample16(v, ram, behind) ==
    LET useAddr == UseAddr16(v)
        b0 == ReadRam(ram, useAddr, behind)
        b1 == ReadRam(ram, useAddr + 1, behind)
        b2 == ReadRam(ram, useAddr + 2, behind)
        b3 == ReadRam(ram, useAddr + 3, behind)
        w1 == IF Unspec \in {b0, b1} THEN Unspec
              ELSE FFromInt(b0 + Int8(b1) * 256)
        \* int8_t | (int8_t << 8): a negative low byte sets every higher bit
        w2 == IF b2 = Unspec THEN Unspec
              ELSE IF Int8(b2) < 0 THEN FFromInt(Int8(b2))
              ELSE IF b3 = Unspec THEN Unspec
              ELSE FFromInt(b2 + Int8(b3) * 256)
        diff == FSub(w2, w1)
        scale == FShift(FFromInt(v.WaveAddr % WAVE_FRACT_ONE), 0 - WAVE_FRACT)
    IN  IF v.WaveAdd < WAVE_FRACT_ONE /\ scale # 0
        THEN FAdd(w1, FMul(diff, scale))
        ELSE w1

\* WriteWaveFreq rounding the step down
WriteWaveFreqFloor(v, val) ==
    [v EXCEPT !.WaveFreq = val, !.WaveAdd = val \div 2]

\* GUSChannels::WriteWaveFreq
WriteWaveFreq(v, val) ==
    [v EXCEPT !.WaveFreq = val, !.WaveAdd = ceil_udivide(val, 2)]

WriteRampRate(v, val) ==
    LET scale == val % 64
        \* uint8_t divider = 1 << (3 * (val >> 6))
        divider == (2^(3 * (val \div 64))) % 256
    IN  [v EXCEPT !.RampRate = val,
                  !.IncrVolIndex = IF scale = 0 \/ divider = 0 THEN 0
                                   ELSE ceil_udivide(scale, divider)]

UpdateWaveRamp(v) == WriteRampRate(WriteWaveFreq(v, v.WaveFreq), v.RampRate)

WritePanPot(v, pos) == [v EXCEPT !.PanPot = Min(pos, GUS_PAN_POSITIONS - 1)]

\* WaveUpdate with a loop that restarts at the boundary itself, dropping the
\* overshoot
WaveUpdateSnap(v, i, WaveIRQ) ==
    IF HasBits(v.WaveCtrl, WCTRL_STOP + WCTRL_STOPPED)
    THEN [v |-> v, WaveIRQ |-> WaveIRQ]
    ELSE
      LET dec == Bit(v.WaveCtrl, 6) = 1
          addr == IF dec THEN Sub32(v.WaveAddr, v.WaveAdd)
                  ELSE Add32(v.WaveAddr, v.WaveAdd)
          WaveLeft == IF dec THEN Sub32(v.WaveStart, addr)
                      ELSE Sub32(addr, v.WaveEnd)
          irq == IF Bit(v.WaveCtrl, 5) = 1 THEN WaveIRQ \cup {i} ELSE WaveIRQ
          ctrlLoop == IF Bit(v.WaveCtrl, 4) = 1 THEN FlipBit(v.WaveCtrl, 6)
                      ELSE v.WaveCtrl
          ctrlStop == SetBit(v.WaveCtrl, 0)
      IN  IF WaveLeft < 0
          THEN [v |-> [v EXCEPT !.WaveAddr = addr], WaveIRQ |-> WaveIRQ]
          ELSE IF Bit(v.RampCtrl, 2) = 1
          THEN [v |-> [v EXCEPT !.WaveAddr = addr], WaveIRQ |-> irq]
          ELSE IF Bit(v.WaveCtrl, 3) = 1
          THEN [v |-> [v EXCEPT !.WaveCtrl = ctrlLoop,
                                !.WaveAddr = IF Bit(ctrlLoop, 6) = 1
                                             THEN v.WaveEnd
                                             ELSE v.WaveStart],
                WaveIRQ |-> irq]
          ELSE [v |-> [v EXCEPT !.WaveCtrl = ctrlStop,
                                !.WaveAddr = IF Bit(ctrlStop, 6) = 1
                                             THEN v.WaveStart ELSE v.WaveEnd],
                WaveIRQ |-> irq]

\* WaveUpdate with a loop that never turns round
WaveUpdateOneWay(v, i, WaveIRQ) ==
    IF HasBits(v.WaveCtrl, WCTRL_STOP + WCTRL_STOPPED)
    THEN [v |-> v, WaveIRQ |-> WaveIRQ]
    ELSE
      LET dec == Bit(v.WaveCtrl, 6) = 1
          addr == IF dec THEN Sub32(v.WaveAddr, v.WaveAdd)
                  ELSE Add32(v.WaveAddr, v.WaveAdd)
          WaveLeft == IF dec THEN Sub32(v.WaveStart, addr)
                      ELSE Sub32(addr, v.WaveEnd)
          irq == IF Bit(v.WaveCtrl, 5) = 1 THEN WaveIRQ \cup {i} ELSE WaveIRQ
          ctrlLoop == v.WaveCtrl
          ctrlStop == SetBit(v.WaveCtrl, 0)
      IN  IF WaveLeft < 0
          THEN [v |-> [v EXCEPT !.WaveAddr = addr], WaveIRQ |-> WaveIRQ]
          ELSE IF Bit(v.RampCtrl, 2) = 1
          THEN [v |-> [v EXCEPT !.WaveAddr = addr], WaveIRQ |-> irq]
          ELSE IF Bit(v.WaveCtrl, 3) = 1
          THEN [v |-> [v EXCEPT !.WaveCtrl = ctrlLoop,
                                !.WaveAddr = IF Bit(ctrlLoop, 6) = 1
                                             THEN Sub32(v.WaveEnd, WaveLeft)
                                             ELSE Add32(v.WaveStart, WaveLeft)],
                WaveIRQ |-> irq]
          ELSE [v |-> [v EXCEPT !.WaveCtrl = ctrlStop,
                                !.WaveAddr = IF Bit(ctrlStop, 6) = 1
                                             THEN v.WaveStart ELSE v.WaveEnd],
                WaveIRQ |-> irq]

\* WaveUpdate that wraps or stops at a boundary whatever RampCtrl says
WaveUpdateWraps(v, i, WaveIRQ) ==
    IF HasBits(v.WaveCtrl, WCTRL_STOP + WCTRL_STOPPED)
    THEN [v |-> v, WaveIRQ |-> WaveIRQ]
    ELSE
      LET dec == Bit(v.WaveCtrl, 6) = 1
          addr == IF dec THEN Sub32(v.WaveAddr, v.WaveAdd)
                  ELSE Add32(v.WaveAddr, v.WaveAdd)
          WaveLeft == IF dec THEN Sub32(v.WaveStart, addr)
                      ELSE Sub32(addr, v.WaveEnd)
          irq == IF Bit(v.WaveCtrl, 5) = 1 THEN WaveIRQ \cup {i} ELSE WaveIRQ
          ctrlLoop == IF Bit(v.WaveCtrl, 4) = 1 THEN FlipBit(v.WaveCtrl, 6)
                      ELSE v.WaveCtrl
          ctrlStop == SetBit(v.WaveCtrl, 0)
      IN  IF WaveLeft < 0
          THEN [v |-> [v EXCEPT !.WaveAddr = addr], WaveIRQ |-> WaveIRQ]
          ELSE IF Bit(v.WaveCtrl, 3) = 1
          THEN [v |-> [v EXCEPT !.WaveCtrl = ctrlLoop,
                                !.WaveAddr = IF Bit(ctrlLoop, 6) = 1
                                             THEN Sub32(v.WaveEnd, WaveLeft)
                                             ELSE Add32(v.WaveStart, WaveLeft)],
                WaveIRQ |-> irq]
          ELSE [v |-> [v EXCEPT !.WaveCtrl = ctrlStop,
                                !.WaveAddr = IF Bit(ctrlStop, 6) = 1
                                             THEN v.WaveStart ELSE v.WaveEnd],
                WaveIRQ |-> irq]

\* WaveUpdate: the voice and the WaveIRQ bitmap after one phase update
WaveUpdate(v, i, WaveIRQ) ==
    IF HasBits(v.WaveCtrl, WCTRL_STOP + WCTRL_STOPPED)
    THEN [v |-> v, WaveIRQ |-> WaveIRQ]
    ELSE
      LET dec == Bit(v.WaveCtrl, 6) = 1
          addr == IF dec THEN Sub32(v.WaveAddr, v.WaveAdd)
                  ELSE Add32(v.WaveAddr, v.WaveAdd)
          WaveLeft == IF dec THEN Sub32(v.WaveStart, addr)
                      ELSE Sub32(addr, v.WaveEnd)
          irq == IF Bit(v.WaveCtrl, 5) = 1 THEN WaveIRQ \cup {i} ELSE WaveIRQ
          ctrlLoop == IF Bit(v.WaveCtrl, 4) = 1 THEN FlipBit(v.WaveCtrl, 6)
                      ELSE v.WaveCtrl
          ctrlStop == SetBit(v.WaveCtrl, 0)
      IN  IF WaveLeft < 0
          THEN [v |-> [v EXCEPT !.WaveAddr = addr], WaveIRQ |-> WaveIRQ]
          ELSE IF Bit(v.RampCtrl, 2) = 1
          THEN [v |-> [v EXCEPT !.WaveAddr = addr], WaveIRQ |-> irq]
          ELSE IF Bit(v.WaveCtrl, 3) = 1
          THEN [v |-> [v EXCEPT !.WaveCtrl = ctrlLoop,
                                !.WaveAddr = IF Bit(ctrlLoop, 6) = 1
                                             THEN Sub32(v.WaveEnd, WaveLeft)
                                             ELSE Add32(v.WaveStart, WaveLeft)],
                WaveIRQ |-> irq]
          ELSE [v |-> [v EXCEPT !.WaveCtrl = ctrlStop,
                                !.WaveAddr = IF Bit(ctrlStop, 6) = 1
                                             THEN v.WaveStart ELSE v.WaveEnd],
                WaveIRQ |-> irq]

\* RampUpdate: the voice and the RampIRQ bitmap after one ramp update
RampUpdate(v, i, RampIRQ) ==
    IF HasBits(v.RampCtrl, 3)
    THEN [v |-> v, RampIRQ |-> RampIRQ]
    ELSE
      LET dec == Bit(v.RampCtrl, 6) = 1
          cur == IF dec THEN Sub32(v.CurrentVolIndex, v.IncrVolIndex)
                 ELSE Add32(v.CurrentVolIndex, v.IncrVolIndex)
          Remaining == IF dec THEN Sub32(v.StartVolIndex, cur)
                       ELSE Sub32(cur, v.EndVolIndex)
          irq == IF Bit(v.RampCtrl, 5) = 1 THEN RampIRQ \cup {i} ELSE RampIRQ
          ctrlLoop == IF Bit(v.RampCtrl, 4) = 1 THEN FlipBit(v.RampCtrl, 6)
                      ELSE v.RampCtrl
          ctrlStop == SetBit(v.RampCtrl, 0)
      IN  IF Remaining < 0
          THEN [v |-> [v EXCEPT !.CurrentVolIndex = cur], RampIRQ |-> RampIRQ]
          ELSE IF Bit(v.RampCtrl, 3) = 1
          THEN [v |-> [v EXCEPT !.RampCtrl = ctrlLoop,
                                !.CurrentVolIndex =
                                    IF Bit(ctrlLoop, 6) = 1
                                    THEN Sub32(v.EndVolIndex, Remaining)
                                    ELSE Add32(v.StartVolIndex, Remaining)],
                RampIRQ |-> irq]
          ELSE [v |-> [v EXCEPT !.RampCtrl = ctrlStop,
                                !.CurrentVolIndex =
                                    IF Bit(ctrlStop, 6) = 1
                                    THEN v.StartVolIndex ELSE v.EndVolIndex],
                RampIRQ |-> irq]

\* RampCtrl & WaveCtrl & 3 of generateSamples
Disabled(v) ==
    \/ Bit(v.RampCtrl, 0) = 1 /\ Bit(v.WaveCtrl, 0) = 1
    \/ Bit(v.RampCtrl, 1) = 1 /\ Bit(v.WaveCtrl, 1) = 1

\* (this->*getSample)()
Sample(v, ram, ub) ==
    IF v.getSample = "GetSample16" THEN GetSample16(v, ram, ub.byte)
    ELSE GetSample8(v, ram, ub.byte)

\* vol_scalars[CurrentVolIndex]; an index outside the table finds what lies
\* beside the table at that index: the float ub.vol names for it, and a
\* float the program does not determine where ub.vol names none
VolScalar(v, ub) ==
    IF v.CurrentVolIndex \in 0 .. (GUS_VOLUME_POSITIONS - 1)
    THEN vol_scalars(v.CurrentVolIndex)
    ELSE IF v.CurrentVolIndex \in DOMAIN ub.vol THEN ub.vol[v.CurrentVolIndex]
    ELSE Unspec

\* (this->*getSample)() * vol_scalars[CurrentVolIndex]; the sample is a
\* number converted from bytes, so that 0.0 times it is 0.0 whatever the
\* bytes were
Voiced(sample, vol) == IF vol = 0 THEN 0 ELSE FMul(sample, vol)

\* sample * pan_scalars[PanPot].left or .right, p being the pan scalar; with
\* the volume index inside vol_scalars (whose scalars are at most 1.0) the
\* sample is a number, so that 0.0 times it is 0.0
Panned(v, sample, p) ==
    IF p = 0 /\ v.CurrentVolIndex \in 0 .. (GUS_VOLUME_POSITIONS - 1) THEN 0
    ELSE FMul(sample, p)

\* the indices of GUSRam that the sample fetch of voice v reads
SampleReads(v) ==
    IF v.getSample = "GetSample16"
    THEN {UseAddr16(v), UseAddr16(v) + 1}
         \cup (IF v.WaveAdd < WAVE_FRACT_ONE
               THEN {UseAddr16(v) + 2, UseAddr16(v) + 3} ELSE {})
    ELSE {UseAddr8(v)}
         \cup (IF v.WaveAdd < WAVE_FRACT_ONE THEN {NextAddr8(v)} ELSE {})

\* the reads of a frame of voice v that leave their array: "ram" for
\* GUSRam, "vol" for vol_scalars
Strays(v) ==
    (IF \E a \in SampleReads(v) : a >= GUS_RAM_SIZE THEN {"ram"} ELSE {})
    \cup (IF v.CurrentVolIndex \in 0 .. (GUS_VOLUME_POSITIONS - 1)
          THEN {} ELSE {"vol"})

\* a read of a frame of voice v outside its array ends the process: with
\* ub.segv every such read does that ub names no value for
Faults(v, ub) ==
    /\ ub.segv
    /\ \/ \E a \in SampleReads(v) :
              a >= GUS_RAM_SIZE /\ a \notin DOMAIN ub.byte
       \/ /\ v.CurrentVolIndex \notin 0 .. (GUS_VOLUME_POSITIONS - 1)
          /\ v.CurrentVolIndex \notin DOMAIN ub.vol

\* GenFrame that leaves the peak as it found it
GenFrameNoPeak(m, i, k, ram, ub) ==
    LET v == m.chan[i]
        sample == Voiced(Sample(v, ram, ub), VolScalar(v, ub))
        addL == Panned(v, sample, pan_scalars(v.PanPot).left)
        addR == Panned(v, sample, pan_scalars(v.PanPot).right)
        accL == FAdd(m.acc[k][1], addL)
        accR == FAdd(m.acc[k][2], addR)
        wu == WaveUpdate(v, i, m.WaveIRQ)
        ru == RampUpdate(wu.v, i, m.RampIRQ)
    IN  IF m.fault # "none" THEN m
        ELSE IF Faults(v, ub)
        THEN [m EXCEPT !.fault = "SIGSEGV", !.hit = @ \cup Strays(v)]
        ELSE
        [chan |-> [m.chan EXCEPT ![i] = ru.v],
         fault |-> "none", hit |-> m.hit \cup Strays(v),
         WaveIRQ |-> wu.WaveIRQ,
         RampIRQ |-> ru.RampIRQ,
         acc |-> [m.acc EXCEPT ![k] = <<accL, accR>>],
         peak |-> m.peak,
         log |-> Append(m.log,
                   [voice |-> i, frame |-> k,
                    read |-> IF v.getSample = "GetSample16" THEN UseAddr16(v)
                             ELSE UseAddr8(v),
                    add |-> <<addL, addR>>,
                    WaveCtrl |-> v.WaveCtrl, WaveAddr |-> v.WaveAddr,
                    RampCtrl |-> v.RampCtrl, Vol |-> v.CurrentVolIndex,
                    WaveCtrl1 |-> ru.v.WaveCtrl, WaveAddr1 |-> ru.v.WaveAddr,
                    RampCtrl1 |-> ru.v.RampCtrl, Vol1 |-> ru.v.CurrentVolIndex,
                    wirq0 |-> i \in m.WaveIRQ, wirq |-> i \in wu.WaveIRQ,
                    rirq |-> i \in ru.RampIRQ])]

\* One turn of the loop of generateSamples for voice i, writing frame k of
\* the stream.  m is the state the loop works on: the voices, the two IRQ
\* bitmaps, the accumulator, the peak, a log of the frames generated, the
\* kinds of out-of-range read met so far (hit), and the signal that killed
\* the process in such a read, after which nothing more is done.
GenFrame(m, i, k, ram, ub) ==
    LET v == m.chan[i]
        sample == Voiced(Sample(v, ram, ub), VolScalar(v, ub))
        addL == Panned(v, sample, pan_scalars(v.PanPot).left)
        addR == Panned(v, sample, pan_scalars(v.PanPot).right)
        accL == FAdd(m.acc[k][1], addL)
        accR == FAdd(m.acc[k][2], addR)
        wu == WaveUpdate(v, i, m.WaveIRQ)
        ru == RampUpdate(wu.v, i, m.RampIRQ)
    IN  IF m.fault # "none" THEN m
        ELSE IF Faults(v, ub)
        THEN [m EXCEPT !.fault = "SIGSEGV", !.hit = @ \cup Strays(v)]
        ELSE
        [chan |-> [m.chan EXCEPT ![i] = ru.v],
         fault |-> "none", hit |-> m.hit \cup Strays(v),
         WaveIRQ |-> wu.WaveIRQ,
         RampIRQ |-> ru.RampIRQ,
         acc |-> [m.acc EXCEPT ![k] = <<accL, accR>>],
         peak |-> [left |-> FMax(m.peak.left, FAbs(accL)),
                   right |-> FMax(m.peak.right, FAbs(accR))],
         log |-> Append(m.log,
                   [voice |-> i, frame |-> k,
                    read |-> IF v.getSample = "GetSample16" THEN UseAddr16(v)
                             ELSE UseAddr8(v),
                    add |-> <<addL, addR>>,
                    WaveCtrl |-> v.WaveCtrl, WaveAddr |-> v.WaveAddr,
                    RampCtrl |-> v.RampCtrl, Vol |-> v.CurrentVolIndex,
                    WaveCtrl1 |-> ru.v.WaveCtrl, WaveAddr1 |-> ru.v.WaveAddr,
                    RampCtrl1 |-> ru.v.RampCtrl, Vol1 |-> ru.v.CurrentVolIndex,
                    wirq0 |-> i \in m.WaveIRQ, wirq |-> i \in wu.WaveIRQ,
                    rirq |-> i \in ru.RampIRQ])]

\* the turns of the loop of generateSamples for voice i that write the
\* frames a .. b of the stream, in their order: those of the first half of
\* the range, then those of the second; none once the process is killed
RECURSIVE GenRange(_, _, _, _, _, _)
GenRange(m, i, a, b, ram, ub) ==
    IF a > b \/ m.fault # "none" THEN m
    ELSE IF a = b THEN GenFrame(m, i, a, ram, ub)
    ELSE GenRange(GenRange(m, i, a, (a + b) \div 2, ram, ub),
                  i, ((a + b) \div 2) + 1, b, ram, ub)

\* the loop of generateSamples for voice i from frame k on; m.acc holds the
\* len frames of the stream that GUS_CallBack asked for
GenFrames(m, i, k, ram, ub) == GenRange(m, i, k, Len(m.acc), ram, ub)

\* generateSamples without its test of the two control registers
generateSamplesAlways(m, i, ram, ub) == GenFrames(m, i, 1, ram, ub)

\* generateSamples of voice i: nothing when RampCtrl & WaveCtrl & 3 is set
generateSamples(m, i, ram, ub) ==
    IF Disabled(m.chan[i]) THEN m ELSE GenFrames(m, i, 1, ram, ub)

\* the loop of GUS_CallBack over the first n voices of guschan, from voice i
RECURSIVE GenVoices(_, _, _, _, _)
GenVoices(m, i, n, ram, ub) ==
    IF i >= n \/ i \notin DOMAIN m.chan THEN m
    ELSE GenVoices(generateSamples(m, i, ram, ub), i + 1, n, ram, ub)

-----------------------------------------------------------------------------
(* SoftLimit *)

max_allowed == FFromInt(INT16_MAX - 1)

\* static_cast<float>(GUS_VOLUME_SCALE_DIV), the float nearest to
\* 1.002709201, which lies between 538325403 and 538325404 times 2^-29
VolumeScaleDiv == FRound(1, 538325403, 121, TRUE)

\* max_allowed * (static_cast<float>(GUS_VOLUME_SCALE_DIV) - 1.0f)
release_amount == FMul(max_allowed, FSub(VolumeScaleDiv, FFromInt(1)))

\* the float x is known to be outside the range of int16_t
OutOfInt16(x) ==
    /\ x # Unspec
    /\ \/ FExp(x) > 157
       \/ FTrunc(x) \notin (0 - 32768) .. 32767

\* static_cast<int16_t> of a float; outside the range of int16_t the
\* conversion is undefined: the low 16 bits of the conversion to 32 bits
\* (which is 0x80000000 when that is out of range too), the most negative
\* value, or 0, as ub.i16 says
ToInt16(x, ub) ==
    IF ~OutOfInt16(x) THEN FTrunc(x)
    ELSE IF ub.i16 = "wrap"
         THEN (IF FExp(x) > 157 THEN 0 ELSE Wrap16(FTrunc(x) % 65536))
    ELSE IF ub.i16 = "min" THEN 0 - 32768
    ELSE 0

\* the conversion of the frames of out to int16_t
Casts(out, ub) ==
    [k \in DOMAIN out |-> <<ToInt16(out[k][1], ub), ToInt16(out[k][2], ub)>>]

\* some value of out is outside the range of int16_t
Over(out) ==
    \E k \in DOMAIN out : \E j \in {1, 2} : OutOfInt16(out[k][j])

\* SoftLimit with its threshold at half of max_allowed
SoftLimitHalf(peak, acc, ub) ==
    IF FLess(peak.left, FShift(max_allowed, 0 - 1))
       /\ FLess(peak.right, FShift(max_allowed, 0 - 1))
    THEN [limited |-> FALSE, peak |-> peak,
          scaled |-> Casts(acc, ub), over |-> Over(acc), open |-> FALSE]
    ELSE [limited |-> TRUE, peak |-> peak, open |-> FALSE,
          scaled |-> Casts([k \in DOMAIN acc |->
                               <<FShift(acc[k][1], 0 - 1),
                                 FShift(acc[k][2], 0 - 1)>>], ub),
          over |-> Over([k \in DOMAIN acc |->
                           <<FShift(acc[k][1], 0 - 1),
                             FShift(acc[k][2], 0 - 1)>>])]

\* ratio: min(1.0f, max_allowed / peak) on each side
Ratio(peak) ==
    [left |-> FMin(FFromInt(1), FDiv(max_allowed, peak.left)),
     right |-> FMin(FFromInt(1), FDiv(max_allowed, peak.right))]

\* x * ratio; the ratio is min(1.0f, q) and therefore no NaN and not above
\* 1.0 whatever q is, so that 0.0 times it is 0.0
Scaled(x, ratio) == IF x = 0 THEN 0 ELSE FMul(x, ratio)

\* in[i][0] * ratio.left and in[i][1] * ratio.right of every frame
Ratios(peak, acc) ==
    [k \in DOMAIN acc |->
        <<Scaled(acc[k][1], Ratio(peak).left),
          Scaled(acc[k][2], Ratio(peak).right)>>]

\* peak_amplitude.x < max_allowed; of a peak the program does not determine
\* it holds or not, as ub.lim says
Below(p, ub) == IF p = Unspec THEN ub.lim ELSE FLess(p, max_allowed)

\* the peak of one side when SoftLimit has limited
Release(p) ==
    IF p = Unspec THEN Unspec
    ELSE IF FLess(max_allowed, p) THEN FSub(p, release_amount)
    ELSE p

\* SoftLimit together with the conversion GUS_CallBack does when it returns
\* false: [limited, scaled, peak], whether a conversion was out of range
\* (over), and whether the verdict rested on ub.lim (open)
SoftLimit(peak, acc, ub) ==
    IF Below(peak.left, ub) /\ Below(peak.right, ub)
    THEN [limited |-> FALSE, peak |-> peak,
          scaled |-> Casts(acc, ub), over |-> Over(acc),
          open |-> Unspec \in {peak.left, peak.right}]
    ELSE [limited |-> TRUE,
          peak |-> [left |-> Release(peak.left),
                    right |-> Release(peak.right)],
          scaled |-> Casts(Ratios(peak, acc), ub),
          over |-> Over(Ratios(peak, acc)),
          open |-> /\ Unspec \in {peak.left, peak.right}
                   /\ Below(peak.left, [ub EXCEPT !.lim = TRUE])
                   /\ Below(peak.right, [ub EXCEPT !.lim = TRUE])]

-----------------------------------------------------------------------------
(* The engine.  s is the whole state: [gus, chan, cur, ram, adlib, ext, pic,  *)
(* hang, fault], where ext is the state of the collaborators (mixer channel,  *)
(* PIC event queue, DMA channels) and of the rest of the process.             *)

NewTimer ==
    [value |-> 0, reached |-> FALSE, raiseirq |-> FALSE, masked |-> FALSE,
     running |-> FALSE, delay |-> 0]

\* struct GFGus as its member initialisers leave it
NewGus ==
    [gRegSelect |-> 0, gRegData |-> 0, gDramAddr |-> 0, gCurChannel |-> 0,
     DMAControl |-> 0, dmaAddr |-> 0, TimerControl |-> 0, SampControl |-> 0,
     mixControl |-> 0, ActiveChannels |-> 0, basefreq |-> 0,
     timers |-> <<NewTimer, NewTimer>>,
     peak_amplitude |-> [left |-> FFromInt(1), right |-> FFromInt(1)],
     dma1 |-> 0, dma2 |-> 0, irq1 |-> 0, irq2 |-> 0,
     irqenabled |-> FALSE, ChangeIRQDMA |-> FALSE,
     IRQStatus |-> 0, ActiveMask |-> {}, IRQChan |-> 0,
     RampIRQ |-> {}, WaveIRQ |-> {}]

\* the collaborators before GUS_Init: no GUS object, no port handler and no
\* mixer channel installed, nothing asked of the PIC or the DMA channels;
\* overwritten is TRUE once a store went past the end of an array and
\* landed in whatever lies behind it
NewExt ==
    [enabled |-> FALSE, freq |-> 0, events |-> <<>>, dmacb |-> {},
     object |-> FALSE, installed |-> FALSE, overwritten |-> FALSE]

GUS_CheckIRQ(s) ==
    IF s.gus.IRQStatus # 0 /\ Bit(s.gus.mixControl, 3) = 1
    THEN [s EXCEPT !.pic = @ \cup {s.gus.irq1}]
    ELSE s

\* The search loop of CheckVoiceIrq: the cursor it stops at, or NoChan when
\* it has not stopped after fuel turns (it then never does: the cursor's
\* walk is periodic with a period of at most 32 turns).
RECURSIVE IrqSearch(_, _, _, _)
IrqSearch(chan, totalmask, active, fuel) ==
    IF chan \in totalmask THEN chan
    ELSE IF fuel = 0 THEN NoChan
    ELSE IrqSearch(IF chan + 1 >= active THEN 0 ELSE chan + 1,
                   totalmask, active, fuel - 1)

\* CheckVoiceIrq without the search loop: the cursor stays where it is
CheckVoiceIrqStays(s) ==
    LET g == s.gus
        cleared == ClearBit(ClearBit(g.IRQStatus, 5), 6)
        totalmask == (g.RampIRQ \cup g.WaveIRQ) \cap g.ActiveMask
        st1 == IF g.RampIRQ # {} THEN SetBit(cleared, 6) ELSE cleared
        st2 == IF g.WaveIRQ # {} THEN SetBit(st1, 5) ELSE st1
    IN  IF totalmask = {} THEN [s EXCEPT !.gus.IRQStatus = cleared]
        ELSE GUS_CheckIRQ([s EXCEPT !.gus.IRQStatus = st2])

CheckVoiceIrq(s) ==
    LET g == s.gus
        cleared == ClearBit(ClearBit(g.IRQStatus, 5), 6)
        totalmask == (g.RampIRQ \cup g.WaveIRQ) \cap g.ActiveMask
        st1 == IF g.RampIRQ # {} THEN SetBit(cleared, 6) ELSE cleared
        st2 == IF g.WaveIRQ # {} THEN SetBit(st1, 5) ELSE st1
        found == IrqSearch(g.IRQChan, totalmask, g.ActiveChannels,
                           2 * GUS_MAX_CHANNELS)
        s2 == GUS_CheckIRQ([s EXCEPT !.gus.IRQStatus = st2])
    IN  IF totalmask = {} THEN [s EXCEPT !.gus.IRQStatus = cleared]
        ELSE IF found = NoChan THEN [s2 EXCEPT !.hang = TRUE]
        ELSE [s2 EXCEPT !.gus.IRQChan = found]

\* WriteWaveCtrl that takes bits 7 and 6 of the value for the manual IRQ
WriteWaveCtrlTopBits(s, i, val) ==
    LET oldirq == s.gus.WaveIRQ
        ctrl == val % 128
        irq == IF Bit(val, 7) = 1 /\ Bit(val, 6) = 1 THEN oldirq \cup {i}
               ELSE oldirq \ {i}
        s1 == [s EXCEPT !.chan[i].WaveCtrl = ctrl,
                        !.chan[i].getSample =
                            IF Bit(ctrl, 2) = 1 THEN "GetSample16"
                            ELSE "GetSample8",
                        !.gus.WaveIRQ = irq]
    IN  IF oldirq # irq THEN CheckVoiceIrq(s1) ELSE s1

\* GUSChannels::WriteWaveCtrl on voice i
WriteWaveCtrl(s, i, val) ==
    LET oldirq == s.gus.WaveIRQ
        ctrl == val % 128
        irq == IF Bit(val, 7) = 1 /\ Bit(val, 5) = 1 THEN oldirq \cup {i}
               ELSE oldirq \ {i}
        s1 == [s EXCEPT !.chan[i].WaveCtrl = ctrl,
                        !.chan[i].getSample =
                            IF Bit(ctrl, 2) = 1 THEN "GetSample16"
                            ELSE "GetSample8",
                        !.gus.WaveIRQ = irq]
    IN  IF oldirq # irq THEN CheckVoiceIrq(s1) ELSE s1

\* GUSChannels::WriteRampCtrl on voice i
WriteRampCtrl(s, i, val) ==
    LET old == s.gus.RampIRQ
        irq == IF Bit(val, 7) = 1 /\ Bit(val, 5) = 1 THEN old \cup {i}
               ELSE old \ {i}
        s1 == [s EXCEPT !.chan[i].RampCtrl = val % 128, !.gus.RampIRQ = irq]
    IN  IF old # irq THEN CheckVoiceIrq(s1) ELSE s1

\* the loop "Stop all channels" of GUSReset over guschan, from voice i on
RECURSIVE ResetChannels(_, _)
ResetChannels(s, i) ==
    IF i \notin DOMAIN s.chan THEN s
    ELSE
      LET s1 == [s EXCEPT !.chan[i].CurrentVolIndex = 0]
          s2 == WriteRampCtrl(WriteWaveCtrl(s1, i, 1), i, 1)
      IN  ResetChannels([s2 EXCEPT !.chan[i] = WritePanPot(@, 7)], i + 1)

\* GUSReset that leaves the timers' reached flags as they are
GUSResetKeepsReached(s) ==
    LET g == s.gus
        t1 == [g.timers[1] EXCEPT !.raiseirq = FALSE, !.running = FALSE,
                                  !.value = 255, !.delay = 1]
        t2 == [g.timers[2] EXCEPT !.raiseirq = FALSE, !.running = FALSE,
                                  !.value = 255, !.delay = 4]
        s1 == [s EXCEPT !.adlib = 85,
                        !.gus.IRQStatus = 0,
                        !.gus.timers = <<t1, t2>>,
                        !.gus.ChangeIRQDMA = FALSE,
                        !.gus.mixControl = 11]
        s2 == ResetChannels(s1, 0)
        s3 == IF Bit(g.gRegData, 0) = 1
              THEN [s2 EXCEPT !.gus.IRQChan = 0,
                              !.gus.peak_amplitude =
                                  [left |-> FFromInt(1),
                                   right |-> FFromInt(1)]]
              ELSE s
    IN  [s3 EXCEPT !.gus.irqenabled = (Bit(g.gRegData, 2) = 1)]

GUSReset(s) ==
    LET g == s.gus
        t1 == [g.timers[1] EXCEPT !.raiseirq = FALSE, !.reached = FALSE,
                                  !.running = FALSE, !.value = 255,
                                  !.delay = 1]
        t2 == [g.timers[2] EXCEPT !.raiseirq = FALSE, !.reached = FALSE,
                                  !.running = FALSE, !.value = 255,
                                  !.delay = 4]
        s1 == [s EXCEPT !.adlib = 85,
                        !.gus.IRQStatus = 0,
                        !.gus.timers = <<t1, t2>>,
                        !.gus.ChangeIRQDMA = FALSE,
                        !.gus.mixControl = 11]
        s2 == ResetChannels(s1, 0)
        s3 == IF Bit(g.gRegData, 0) = 1
              THEN [s2 EXCEPT !.gus.IRQChan = 0,
                              !.gus.peak_amplitude =
                                  [left |-> FFromInt(1),
                                   right |-> FFromInt(1)]]
              ELSE s
    IN  [s3 EXCEPT !.gus.irqenabled = (Bit(g.gRegData, 2) = 1)]

\* ExecuteReadRegister: [s |-> the state after, ret |-> the value returned]
ExecuteReadRegister(s) ==
    LET g == s.gus
        sel == g.gRegSelect
        dmaret == (ClearBit(g.DMAControl, 6) + 64 * Bit(g.IRQStatus, 7)) * 256
        v == IF s.cur = NoChan THEN NewChannel ELSE s.chan[s.cur]
        tmp8f == SetBit(g.IRQChan, 5)
                 + (IF g.IRQChan \in g.RampIRQ THEN 0 ELSE 64)
                 + (IF g.IRQChan \in g.WaveIRQ THEN 0 ELSE 128)
    IN  CASE sel = 65 ->
               [s |-> [s EXCEPT !.gus.IRQStatus = ClearBit(@, 7)],
                ret |-> dmaret]
          [] sel = 66 -> [s |-> s, ret |-> g.dmaAddr]
          [] sel = 69 -> [s |-> s, ret |-> g.TimerControl * 256]
          [] sel = 73 -> [s |-> s, ret |-> dmaret]
          [] sel = 128 ->
               [s |-> s,
                ret |-> IF s.cur = NoChan THEN 768
                        ELSE (IF s.cur \in g.WaveIRQ
                              THEN SetBit(v.WaveCtrl, 7)
                              ELSE v.WaveCtrl) * 256]
          [] sel = 130 -> [s |-> s, ret |-> Shr32(v.WaveStart, 16) % 65536]
          [] sel = 131 -> [s |-> s, ret |-> v.WaveStart % 65536]
          [] sel = 137 -> [s |-> s, ret |-> (v.CurrentVolIndex * 16) % 65536]
          [] sel = 138 -> [s |-> s, ret |-> Shr32(v.WaveAddr, 16) % 65536]
          [] sel = 139 -> [s |-> s, ret |-> v.WaveAddr % 65536]
          [] sel = 141 ->
               [s |-> s,
                ret |-> IF s.cur = NoChan THEN 768
                        ELSE (IF s.cur \in g.RampIRQ
                              THEN SetBit(v.RampCtrl, 7)
                              ELSE v.RampCtrl) * 256]
          [] sel = 143 ->
               [s |-> CheckVoiceIrq(
                        [s EXCEPT !.gus.RampIRQ = @ \ {g.IRQChan},
                                  !.gus.WaveIRQ = @ \ {g.IRQChan}]),
                ret |-> (tmp8f % 256) * 256]
          [] OTHER -> [s |-> s, ret |-> g.gRegData]

\* the base mix rate: 0.5 + 1000000.0 / (1.619695497 * n), truncated
BaseFreq(n) == (2 * 617400 + n) \div (2 * n)

\* the loop of case 0xE that re-applies wave add and ramp increment
ReapplyRamps(chan, n) ==
    [i \in DOMAIN chan |-> IF i < n THEN UpdateWaveRamp(chan[i]) ELSE chan[i]]

\* case 0xE of ExecuteGlobRegister: set active channel register
SetActiveChannels(s) ==
    LET g == s.gus
        hi == g.gRegData \div 256
        requested == Max(GUS_MIN_CHANNELS,
                         Min(GUS_MAX_CHANNELS, 1 + (hi % 64)))
        s1 == [s EXCEPT !.gus.gRegSelect = hi]
        s2 == IF requested # g.ActiveChannels
              THEN [s1 EXCEPT !.gus.ActiveChannels = requested,
                              !.gus.ActiveMask = OnesShr(32 - requested),
                              !.gus.basefreq = BaseFreq(requested),
                              !.ext.freq = BaseFreq(requested)]
              ELSE s1
    IN  [s2 EXCEPT !.chan = ReapplyRamps(@, s2.gus.ActiveChannels),
                   !.ext.enabled = TRUE]

\* the per-voice cases 0x0 .. 0xD of ExecuteGlobRegister, on voice i
VoiceRegister(s, i) ==
    LET sel == s.gus.gRegSelect
        data == s.gus.gRegData
        hi == data \div 256
        v == s.chan[i]
        msw == (data % 8192) * 65536
    IN  CASE sel = 0 -> WriteWaveCtrl(s, i, hi)
          [] sel = 1 -> [s EXCEPT !.chan[i] = WriteWaveFreq(@, data)]
          [] sel = 2 -> [s EXCEPT !.chan[i].WaveStart = Lo16(@) + msw]
          [] sel = 3 -> [s EXCEPT !.chan[i].WaveStart = (@ - Lo16(@)) + data]
          [] sel = 4 -> [s EXCEPT !.chan[i].WaveEnd = Lo16(@) + msw]
          [] sel = 5 -> [s EXCEPT !.chan[i].WaveEnd = (@ - Lo16(@)) + data]
          [] sel = 6 -> [s EXCEPT !.chan[i] = WriteRampRate(@, hi)]
          [] sel = 7 -> [s EXCEPT !.chan[i].StartVolIndex = hi * 16]
          [] sel = 8 -> [s EXCEPT !.chan[i].EndVolIndex = hi * 16]
          [] sel = 9 -> [s EXCEPT !.chan[i].CurrentVolIndex = data \div 16]
          [] sel = 10 -> [s EXCEPT !.chan[i].WaveAddr = Lo16(@) + msw]
          [] sel = 11 -> [s EXCEPT !.chan[i].WaveAddr = (@ - Lo16(@)) + data]
          [] sel = 12 -> [s EXCEPT !.chan[i] = WritePanPot(@, hi)]
          [] sel = 13 -> WriteRampCtrl(s, i, hi)
          [] OTHER -> s

ExecuteGlobRegister(s) ==
    LET g == s.gus
        sel == g.gRegSelect
        data == g.gRegData
        hi == data \div 256
    IN  CASE sel \in 0..13 ->
               IF s.cur = NoChan THEN s ELSE VoiceRegister(s, s.cur)
          [] sel = 14 -> SetActiveChannels(s)
          [] sel = 65 ->
               [s EXCEPT !.gus.DMAControl = hi,
                         !.ext.dmacb = IF Bit(hi, 0) = 1 THEN @ \cup {g.dma1}
                                       ELSE @ \ {g.dma1}]
          [] sel = 66 -> [s EXCEPT !.gus.dmaAddr = data]
          [] sel = 67 ->
               [s EXCEPT !.gus.gDramAddr = (((@ \div 65536) % 256) * 65536) + data]
          [] sel = 68 ->
               [s EXCEPT !.gus.gDramAddr = (@ % 65536) + hi * 65536]
          [] sel = 69 ->
               [s EXCEPT !.gus.TimerControl = hi,
                         !.gus.timers[1].raiseirq = (Bit(hi, 2) = 1),
                         !.gus.timers[2].raiseirq = (Bit(hi, 3) = 1),
                         !.gus.IRQStatus =
                             LET a == IF Bit(hi, 2) = 1 THEN @
                                      ELSE ClearBit(@, 2)
                             IN  IF Bit(hi, 3) = 1 THEN a ELSE ClearBit(a, 3)]
          [] sel = 70 ->
               [s EXCEPT !.gus.timers[1].value = hi,
                         !.gus.timers[1].delay = 256 - hi]
          [] sel = 71 ->
               [s EXCEPT !.gus.timers[2].value = hi,
                         !.gus.timers[2].delay = (256 - hi) * 4]
          [] sel = 73 ->
               [s EXCEPT !.gus.SampControl = hi,
                         !.ext.dmacb = IF Bit(hi, 0) = 1 THEN @ \cup {g.dma1}
                                       ELSE @ \ {g.dma1}]
          [] sel = 76 -> GUSReset(s)
          [] OTHER -> s

\* TimerCommand that asks for an event on every start command
TimerCommandAlways(s, t, val) ==
    LET s1 == [s EXCEPT !.gus.timers[t].masked =
                            (Bit(val, IF t = 1 THEN 6 ELSE 5) = 1)]
    IN  IF Bit(val, t - 1) = 1
        THEN [s1 EXCEPT !.ext.events = Append(@, t - 1),
                        !.gus.timers[t].running = TRUE]
        ELSE [s1 EXCEPT !.gus.timers[t].running = FALSE]

\* case 0x209 of write_gus, for the timer held at timers[t] (val is the
\* timer's number, t - 1)
TimerCommand(s, t, val) ==
    LET s1 == [s EXCEPT !.gus.timers[t].masked =
                            (Bit(val, IF t = 1 THEN 6 ELSE 5) = 1)]
    IN  IF Bit(val, t - 1) = 1
        THEN IF ~s1.gus.timers[t].running
             THEN [s1 EXCEPT !.ext.events = Append(@, t - 1),
                             !.gus.timers[t].running = TRUE]
             ELSE s1
        ELSE [s1 EXCEPT !.gus.timers[t].running = FALSE]

\* irqtable and dmatable
irqtable == <<0, 2, 5, 3, 7, 11, 12, 15>>

dmatable == <<0, 1, 3, 5, 6, 7, 0, 0>>

\* case 0x20b of write_gus that leaves ChangeIRQDMA set
AssignIrqDmaStaysArmed(s, val) ==
    IF ~s.gus.ChangeIRQDMA THEN s
    ELSE IF Bit(s.gus.mixControl, 6) = 1
    THEN [s EXCEPT !.gus.irq1 = IF irqtable[(val % 8) + 1] # 0
                                THEN irqtable[(val % 8) + 1] ELSE @]
    ELSE [s EXCEPT !.gus.dma1 = IF dmatable[(val % 8) + 1] # 0
                                THEN dmatable[(val % 8) + 1] ELSE @]

\* case 0x20b of write_gus: the IRQ or DMA assignment, once armed
AssignIrqDma(s, val) ==
    IF ~s.gus.ChangeIRQDMA THEN s
    ELSE IF Bit(s.gus.mixControl, 6) = 1
    THEN [s EXCEPT !.gus.ChangeIRQDMA = FALSE,
                   !.gus.irq1 = IF irqtable[(val % 8) + 1] # 0
                                THEN irqtable[(val % 8) + 1] ELSE @]
    ELSE [s EXCEPT !.gus.ChangeIRQDMA = FALSE,
                   !.gus.dma1 = IF dmatable[(val % 8) + 1] # 0
                                THEN dmatable[(val % 8) + 1] ELSE @]

\* write_gus, port being the offset from GUS_BASE
write_gus(s, port, val, iolen) ==
    LET g == s.gus
    IN  CASE port = 512 ->
               [s EXCEPT !.gus.mixControl = val % 256,
                         !.gus.ChangeIRQDMA = TRUE]
          [] port = 520 -> [s EXCEPT !.adlib = val % 256]
          [] port = 521 ->
               IF Bit(val, 7) = 1
               THEN [s EXCEPT !.gus.timers[1].reached = FALSE,
                              !.gus.timers[2].reached = FALSE]
               ELSE TimerCommand(TimerCommand(s, 1, val), 2, val)
          [] port = 523 -> AssignIrqDma(s, val)
          [] port = 770 ->
               [s EXCEPT !.gus.gCurChannel = val % 32, !.cur = val % 32]
          [] port = 771 ->
               [s EXCEPT !.gus.gRegSelect = val % 256, !.gus.gRegData = 0]
          [] port = 772 ->
               IF iolen = 2
               THEN ExecuteGlobRegister([s EXCEPT !.gus.gRegData = val % 65536])
               ELSE [s EXCEPT !.gus.gRegData = val % 65536]
          [] port = 773 ->
               ExecuteGlobRegister(
                   [s EXCEPT !.gus.gRegData = (@ % 256) + (val % 256) * 256])
          [] port = 775 ->
               IF g.gDramAddr < GUS_RAM_SIZE
               THEN [s EXCEPT !.ram = Poke(@, g.gDramAddr, val % 256)]
               ELSE s
          [] OTHER -> s

\* read_gus: [s |-> the state after, ret |-> the value returned]
read_gus(s, port, iolen) ==
    LET g == s.gus
        r == ExecuteReadRegister(s)
        t6 == IF g.timers[1].reached THEN 64 ELSE 0
        t5 == IF g.timers[2].reached THEN 32 ELSE 0
    IN  CASE port = 518 -> [s |-> s, ret |-> g.IRQStatus]
          [] port = 520 ->
               [s |-> s,
                ret |-> t6 + t5 + (IF t6 + t5 # 0 THEN 128 ELSE 0)
                        + 4 * Bit(g.IRQStatus, 2) + 2 * Bit(g.IRQStatus, 3)]
          [] port = 522 -> [s |-> s, ret |-> s.adlib]
          [] port = 770 -> [s |-> s, ret |-> g.gCurChannel % 256]
          [] port = 771 -> [s |-> s, ret |-> g.gRegSelect]
          [] port = 772 ->
               [s |-> r.s,
                ret |-> IF iolen = 2 THEN r.ret % 65536 ELSE r.ret % 256]
          [] port = 773 -> [s |-> r.s, ret |-> r.ret \div 256]
          [] port = 775 ->
               [s |-> s,
                ret |-> IF g.gDramAddr < GUS_RAM_SIZE
                        THEN Peek(s.ram, g.gDramAddr) ELSE 0]
          [] OTHER -> [s |-> s, ret |-> 255]

\* GUS_TimerEvent that sets reached whatever the mask says
GUS_TimerEventUnmasked(s, val) ==
    LET t == s.gus.timers[val + 1]
        s1 == [s EXCEPT !.gus.timers[val + 1].reached = TRUE]
        s2 == IF t.raiseirq
              THEN GUS_CheckIRQ([s1 EXCEPT !.gus.IRQStatus = SetBit(@, 2 + val)])
              ELSE s1
    IN  IF t.running THEN [s2 EXCEPT !.ext.events = Append(@, val)] ELSE s2

\* GUS_TimerEvent(val); the PIC has taken the event off its queue
GUS_TimerEvent(s, val) ==
    LET t == s.gus.timers[val + 1]
        s1 == IF ~t.masked THEN [s EXCEPT !.gus.timers[val + 1].reached = TRUE]
              ELSE s
        s2 == IF t.raiseirq
              THEN GUS_CheckIRQ([s1 EXCEPT !.gus.IRQStatus = SetBit(@, 2 + val)])
              ELSE s1
    IN  IF t.running THEN [s2 EXCEPT !.ext.events = Append(@, val)] ELSE s2

\* a record like r whose fields hold values that are not determined
Undetermined(r) == [f \in DOMAIN r |-> Unspec]

\* the state once a store has gone past the end of an array.  Behind GUSRam
\* lie vol_scalars, pan_scalars, myGUS, the guschan pointers and curchan;
\* which of them the store reached, and what they hold now, is the build's
\* choice, and so is whether an IRQ was raised: none of it is determined
Overrun(s) ==
    [s EXCEPT !.gus = Undetermined(NewGus),
              !.chan = [i \in Voices |-> Undetermined(NewChannel)],
              !.cur = Unspec, !.pic = Unspec, !.ext.overwritten = TRUE]

\* the state a handler leaves that ran after a store outside an array and
\* returned: it worked with registers, tables and pointers that are not
\* determined, so neither is what it stored in the sample memory or asked
\* of the mixer, the PIC and the DMA controller
Gone(s) ==
    [Overrun(s) EXCEPT !.ram = Unspec, !.adlib = Unspec,
                       !.ext.enabled = Unspec, !.ext.freq = Unspec,
                       !.ext.events = Unspec, !.ext.dmacb = Unspec]

\* what the mixer, the PIC and the DMA controller hold is not determined
Adrift(e) == e.freq = Unspec

\* the outcomes of a handler that runs after a store outside an array, or
\* that stores through a pointer to a deleted voice: it returns and nothing
\* of the state is determined, or the process is killed by a fault or by
\* the allocator's abort, or it never returns
Astray(s) ==
    <<Gone(s), [s EXCEPT !.fault = "SIGSEGV"], [s EXCEPT !.fault = "SIGABRT"],
      [s EXCEPT !.hang = TRUE]>>

\* which outcomes a handler has: those of Astray if it is astray, and the
\* one its code determines, numbered 0, if not
Ways(astray) == IF astray THEN 1 .. 4 ELSE {0}

\* the address in GUSRam a DMA transfer starts at
DmaAddr(g) ==
    IF Bit(g.DMAControl, 2) = 1
    THEN (((g.dmaAddr % 8192) * 2) + ((g.dmaAddr \div 16384) * 16384)) * 16
    ELSE g.dmaAddr * 16

\* the byte GUS_DMA_Callback leaves at offset k - 1 of the transfer, given
\* the byte b the channel delivered: with bit 7 of DMAControl the MSB is
\* inverted, of every byte of 8-bit data and of the high bytes of 16-bit data
DmaByte(g, k, b) ==
    IF Bit(g.DMAControl, 7) = 1 /\ (Bit(g.DMAControl, 6) = 0 \/ k % 2 = 0)
    THEN (b + 128) % 256
    ELSE b

\* GUSRam after chan->Read delivered the bytes data at address a and the MSBs
\* were inverted; a byte past the end of the array lands outside GUSRam
RECURSIVE DmaStore(_, _, _, _, _)
DmaStore(ram, g, a, data, k) ==
    IF k > Len(data) THEN ram
    ELSE DmaStore(IF a + k - 1 < GUS_RAM_SIZE
                  THEN Poke(ram, a + k - 1, DmaByte(g, k, data[k]))
                  ELSE ram,
                  g, a, data, k + 1)

\* the transfer of the bytes data, in either direction, reaches past the end
\* of GUSRam
DmaStrays(g, data) == DmaAddr(g) + Len(data) > GUS_RAM_SIZE

\* GUS_DMA_Callback(chan, DMA_UNMASKED) on DMA channel c, whose Read delivers
\* the bytes data (currcnt + 1 units of one or two bytes).  A transfer that
\* leaves GUSRam is undefined: with segv the access faults and the process
\* is killed inside the callback; without it the bytes of an upload past
\* the end land in the statics that follow the array, the test of DMA
\* control for the IRQ reads what they hold now, and the callback leaves
\* the channel; a download hands the channel what lies behind the array
GUS_DMA_Callback(s, c, data, segv) ==
    LET g == s.gus
        s1 == IF Bit(g.DMAControl, 1) = 0
              THEN [s EXCEPT !.ram = DmaStore(@, g, DmaAddr(g), data, 1)]
              ELSE s
        s2 == IF Bit(g.DMAControl, 5) = 1
              THEN GUS_CheckIRQ([s1 EXCEPT !.gus.IRQStatus = SetBit(@, 7)])
              ELSE s1
        s3 == [s2 EXCEPT !.ext.dmacb = @ \ {c}]
    IN  IF segv /\ DmaStrays(g, data) THEN [s EXCEPT !.fault = "SIGSEGV"]
        ELSE IF DmaStrays(g, data) /\ Bit(g.DMAControl, 1) = 0
        THEN Overrun(s3)
        ELSE s3

\* the process is killed by the signal inside GUS_CallBack: nothing is
\* handed to the mixer
Killed(s, m, signal) ==
    [s |-> [s EXCEPT !.fault = signal],
     mix |-> [len |-> 0, accumulator |-> <<>>,
              peak |-> [left |-> 0, right |-> 0], limited |-> FALSE,
              scaled |-> <<>>, frames |-> m.log, start |-> s.chan,
              hit |-> m.hit]]

\* GUS_CallBack never returns: the voices and their IRQs are as the calls
\* of generateSamples that were made left them in m, the stores have left
\* the arrays, and nothing is handed to the mixer
Stuck(s, m) ==
    [s |-> [s EXCEPT !.chan = m.chan,
                     !.gus.WaveIRQ = m.WaveIRQ,
                     !.gus.RampIRQ = m.RampIRQ,
                     !.gus.peak_amplitude = m.peak,
                     !.ext.overwritten = TRUE,
                     !.hang = TRUE],
     mix |-> [len |-> 0, accumulator |-> <<>>,
              peak |-> [left |-> 0, right |-> 0], limited |-> FALSE,
              scaled |-> <<>>, frames |-> m.log, start |-> s.chan,
              hit |-> m.hit]]

\* the end of GUS_CallBack: with the voices mixed into m and the verdict lim
\* of SoftLimit, the frames go to AddSamples_s16 and CheckVoiceIrq runs
AddSamples(s, m, lim) ==
    [s |-> CheckVoiceIrq([s EXCEPT !.chan = m.chan,
                                   !.gus.WaveIRQ = m.WaveIRQ,
                                   !.gus.RampIRQ = m.RampIRQ,
                                   !.gus.peak_amplitude = lim.peak,
                                   !.ext.overwritten =
                                       @ \/ Len(m.acc) > GUS_BUFFER_FRAMES]),
     mix |-> [len |-> Len(m.acc), accumulator |-> m.acc, peak |-> m.peak,
              limited |-> lim.limited, scaled |-> lim.scaled,
              frames |-> m.log, start |-> s.chan,
              hit |-> m.hit \cup (IF lim.over THEN {"i16"} ELSE {})
                           \cup (IF lim.open THEN {"lim"} ELSE {})]]

\* GUS_CallBack once the voices are mixed into m
MixDown(s, m, ub) ==
    IF m.fault # "none" THEN Killed(s, m, m.fault)
    ELSE AddSamples(s, m, SoftLimit(m.peak, m.acc, ub))

\* the stream and the peaks of a callback whose loops ran past the end of
\* accumulator and scaled: the frames share the stack with whatever lies
\* behind the two arrays, and what they hold is not determined
PastBuffer(m) ==
    IF Len(m.acc) <= GUS_BUFFER_FRAMES THEN m
    ELSE [m EXCEPT !.acc = [k \in DOMAIN m.acc |-> <<Unspec, Unspec>>],
                   !.peak = [left |-> Unspec, right |-> Unspec]]

\* GUS_CallBack once the voices it got through are mixed into m: the loops
\* of SoftLimit and of the conversion, which do not end when asked for more
\* than 255 frames, or when the stores past the arrays undo the counting
Ending(s, len, m, ub) ==
    IF /\ m.fault = "none"
       /\ len > GUS_BUFFER_FRAMES
       /\ (len > 255 \/ ub.long = "hangs")
    THEN Stuck(s, m)
    ELSE MixDown(s, m, ub)

\* GUS_CallBack(len): [s |-> the state after, mix |-> what it produced].
\* mix holds the accumulator and the peak as generateSamples left them, the
\* frames handed to AddSamples_s16, whether SoftLimit limited, the voices as
\* the callback found them, the log of the frames the voices generated and
\* the kinds of undefined behaviour it ran into.  With len above
\* GUS_BUFFER_FRAMES the assert aborts (ub.long = "SIGABRT"); compiled
\* with NDEBUG the loops run past the arrays on the stack, where a store
\* ends the process ("SIGSEGV"), or lands on what the loops after
\* generateSamples count with, so that they never end ("hangs"), or lands
\* in what else lies there ("runs"); from 256 on the uint8_t counters of
\* those loops never reach len.  The frames a voice stores past accumulator
\* land on the locals of GUS_CallBack as well, its loop over the voices
\* among them: ub.upto is the number of voices the loop gets through
GUS_CallBack(s, len, ub) ==
    IF len > GUS_BUFFER_FRAMES /\ ub.long \in {"SIGABRT", "SIGSEGV"}
    THEN Killed(s, [log |-> <<>>, hit |-> {"len"}], ub.long)
    ELSE Ending(s, len,
                PastBuffer(
                    GenVoices([chan |-> s.chan, WaveIRQ |-> s.gus.WaveIRQ,
                               RampIRQ |-> s.gus.RampIRQ,
                               acc |-> [k \in 1..len |-> <<0, 0>>],
                               peak |-> s.gus.peak_amplitude, log |-> <<>>,
                               fault |-> "none",
                               hit |-> IF len > GUS_BUFFER_FRAMES
                                       THEN {"len"} ELSE {}],
                              0,
                              IF len > GUS_BUFFER_FRAMES
                              THEN Min(ub.upto, s.gus.ActiveChannels)
                              ELSE s.gus.ActiveChannels,
                              s.ram, ub)),
                ub)

\* the statics as the program starts: the initialisers of gus.cpp 63-120
\* and 388-389, no GUS object, nothing asked of the collaborators
Boot ==
    [gus |-> NewGus, chan |-> <<>>, cur |-> NoChan, ram |-> <<>>,
     adlib |-> 0, ext |-> NewExt, pic |-> {}, hang |-> FALSE,
     fault |-> "none"]

\* The GUS constructor in state s, with the configured DMA channel and IRQ
\* line, a value outside 0..255 being replaced by the default.  On a
\* machine that is not EGA or VGA, or with gus=false (~gus), it returns at
\* once.  Otherwise it sets the four assignments, installs the port
\* handlers and a mixer channel, makes 32 voices and runs GUSReset with
\* gRegData = 1; every other static keeps what it held, which after an
\* earlier GUS_ShutDown is what the card before left: the sample memory,
\* the registers GUSReset does not touch, the events pending at the PIC
\* and a callback registered with the DMA controller.  curchan, if it
\* pointed at a voice, points at a deleted one.
GUS(s, gus, dma_val, irq_val) ==
    LET dma == IF dma_val < 0 \/ dma_val > 255 THEN 3 ELSE dma_val
        irq == IF irq_val < 0 \/ irq_val > 255 THEN 5 ELSE irq_val
        s0 == [s EXCEPT !.gus.dma1 = dma, !.gus.dma2 = dma,
                        !.gus.irq1 = irq, !.gus.irq2 = irq,
                        !.gus.gRegData = 1,
                        !.chan = [i \in Voices |-> NewChannel],
                        !.cur = IF @ = NoChan THEN NoChan ELSE Unspec,
                        !.ext.object = TRUE, !.ext.installed = TRUE,
                        !.ext.enabled = NewExt.enabled,
                        !.ext.freq = NewExt.freq]
    IN  IF ~gus THEN [s EXCEPT !.ext.object = TRUE]
        ELSE [GUSReset(s0) EXCEPT !.gus.gRegData = 0]

\* GUS_Init in state s: test = new GUS(sec); gus says whether the machine
\* is EGA or VGA and the section has gus=true
GUS_Init(s, gus, dma_val, irq_val) == GUS(s, gus, dma_val, irq_val)

\* the first GUS_Init of the program, for a card that is configured
Construct(dma_val, irq_val) == GUS_Init(Boot, TRUE, dma_val, irq_val)

\* GUS_ShutDown: delete test.  The destructor of a card that was installed
\* runs GUSReset with gRegData = 1 and deletes the voices; the handlers and
\* the mixer channel go with the object, while the events pending at the
\* PIC and a callback registered with the DMA controller stay.
GUS_ShutDown(s) ==
    IF ~s.ext.installed THEN [s EXCEPT !.ext.object = FALSE]
    ELSE [GUSReset([s EXCEPT !.gus.gRegData = 1])
             EXCEPT !.gus.gRegData = 0, !.chan = <<>>,
                    !.ext.object = FALSE, !.ext.installed = FALSE]

-----------------------------------------------------------------------------
(* State and steps *)

St ==
    [gus |-> myGUS, chan |-> guschan, cur |-> curchan, ram |-> GUSRam,
     adlib |-> adlib_commandreg, ext |-> ext, pic |-> {}, hang |-> hang,
     fault |-> fault]

Becomes(s) ==
    /\ myGUS' = s.gus
    /\ guschan' = s.chan
    /\ curchan' = s.cur
    /\ GUSRam' = s.ram
    /\ adlib_commandreg' = s.adlib
    /\ ext' = s.ext
    /\ pic' = s.pic
    /\ hang' = s.hang
    /\ fault' = s.fault

Is(s) ==
    /\ myGUS = s.gus
    /\ guschan = s.chan
    /\ curchan = s.cur
    /\ GUSRam = s.ram
    /\ adlib_commandreg = s.adlib
    /\ ext = s.ext
    /\ pic = s.pic
    /\ hang = s.hang
    /\ fault = s.fault

NoMix ==
    [len |-> 0, accumulator |-> <<>>, peak |-> [left |-> 0, right |-> 0],
     limited |-> FALSE, scaled |-> <<>>, frames |-> <<>>, start |-> <<>>,
     hit |-> {}]

\* host.ops: the last three operations, the latest last, each <<name, port,
\* value>>; host.reads: reads of register 0x8F since the last other
\* operation; host.frames: frames asked of GUS_CallBack so far; host.writes:
\* port writes so far; host.events: PIC and DMA events delivered so far;
\* host.inits: calls of GUS_Init so far;
\* host.dma: the index in GUSRam the last DMA transfer started at and the
\* index one past its last byte
NoOp == <<"none", 0, 0>>

NoHost ==
    [ops |-> <<NoOp, NoOp, <<"construct", 0, 0>>>>, reads |-> 0, frames |-> 0,
     writes |-> 0, events |-> 0, inits |-> 1, dma |-> <<0, 0>>]

Push(ops, op) == <<ops[2], ops[3], op>>

\* the state after the host's port writes w[1], w[2], ..., each <<port, val,
\* iolen>>: the first half of them, then the second half; a write reaches
\* write_gus only while the handlers are installed
RECURSIVE Program(_, _)
Program(s, w) ==
    IF w = <<>> \/ s.hang \/ s.fault # "none" \/ ~s.ext.installed THEN s
    ELSE IF Len(w) = 1 THEN write_gus(s, w[1][1], w[1][2], w[1][3])
    ELSE Program(Program(s, SubSeq(w, 1, Len(w) \div 2)),
                 SubSeq(w, (Len(w) \div 2) + 1, Len(w)))

\* the state after the host's port writes w, pic holding the lines the
\* last of them called PIC_ActivateIRQ for
After(s, w) ==
    IF w = <<>> THEN [s EXCEPT !.pic = {}]
    ELSE Program([Program(s, SubSeq(w, 1, Len(w) - 1)) EXCEPT !.pic = {}],
                 <<w[Len(w)]>>)

\* the writes that set global register reg to the 16-bit data
SetReg(reg, data) == <<<<771, reg, 1>>, <<772, data, 2>>>>

\* the writes that poke byte val at DRAM address a
PokeAt(a, val) ==
    SetReg(67, a % 65536) \o SetReg(68, (a \div 65536) * 256)
        \o <<<<775, val, 1>>>>

\* the writes that program voice i from the record c
VoiceSetup(i, c) ==
    <<<<770, i, 1>>>>
    \o SetReg(1, c.freq)
    \o SetReg(2, c.start \div 65536) \o SetReg(3, c.start % 65536)
    \o SetReg(4, c.end \div 65536) \o SetReg(5, c.end % 65536)
    \o SetReg(10, c.addr \div 65536) \o SetReg(11, c.addr % 65536)
    \o SetReg(6, c.rate * 256)
    \o SetReg(7, c.rstart * 256) \o SetReg(8, c.rend * 256)
    \o SetReg(9, c.vol * 16)
    \o SetReg(12, c.pan * 256)
    \o SetReg(13, c.rctrl * 256)
    \o SetReg(0, c.wctrl * 256)

\* the writes that set the active-voice count to n
Activate(n) == SetReg(14, (n - 1) * 256)

\* the results of a float outside int16_t converted to it: the low 16 bits
\* of the conversion to 32 bits, the most negative value, or 0
CastStray == {"wrap", "min", "zero"}

\* what a callback asked for more than GUS_BUFFER_FRAMES frames does
LongStray == {"SIGABRT", "SIGSEGV", "hangs", "runs"}

\* the outcomes of undefined behaviour in one callback.  byte names bytes
\* found behind GUSRam, by index, and vol floats found beside vol_scalars,
\* by index; a read outside an array at an index they do not name ends the
\* process if segv, and yields Unspec if not.  lim says whether a peak
\* that is Unspec is below max_allowed, i16 what a conversion out of range
\* yields, long what a callback for more than GUS_BUFFER_FRAMES frames
\* does, and upto how many voices its loop gets through.  The steps name
\* no byte and no float: what a read outside an array finds is Unspec in
\* each of them.
UB ==
    [byte : {<<>>}, vol : {<<>>}, i16 : CastStray, segv : BOOLEAN,
     lim : BOOLEAN, long : LongStray, upto : 1 .. GUS_MAX_CHANNELS]

\* the member of UB a callback is computed with first
NoUB ==
    [byte |-> <<>>, vol |-> <<>>, i16 |-> "wrap", segv |-> FALSE,
     lim |-> FALSE, long |-> "SIGABRT", upto |-> GUS_MAX_CHANNELS]

\* the numbers of voices the loop of a callback in state s for more than
\* GUS_BUFFER_FRAMES frames may get through: the frames of a voice that
\* plays are stored past accumulator, onto the counter of the loop, so the
\* loop may end after any such voice; GUS_MAX_CHANNELS stands for all the
\* active voices, which is also what ending after the last voice that
\* plays comes to
Cuts(s) ==
    LET on == {i \in Voices : /\ i < s.gus.ActiveChannels
                              /\ ~Disabled(s.chan[i])}
    IN  {GUS_MAX_CHANNELS}
            \cup {i + 1 : i \in {j \in on : \E k \in on : k > j}}

\* the kinds of undefined behaviour a callback runs into, in the order it
\* runs into them, each with the field of ub that decides it and the values
\* of the field: the assert, the stores past accumulator, the reads outside
\* an array, the limiter's test of a peak that is Unspec, the conversions
\* out of range
Stages ==
    <<<<{"len"}, "long", LongStray>>,
      <<{"len"}, "upto", 1 .. GUS_MAX_CHANNELS>>,
      <<{"ram", "vol"}, "segv", BOOLEAN>>,
      <<{"lim"}, "lim", BOOLEAN>>, <<{"i16"}, "i16", CastStray>>>>

\* the values of the field of stage k that a callback in state s can meet
Choices(s, k) ==
    IF Stages[k][2] = "upto" THEN Cuts(s) ELSE Stages[k][3]

\* the outcomes R of a callback, each the ub it was computed with and its
\* result r, refined from stage k on: an outcome that ran into undefined
\* behaviour of the kinds of a stage is replaced by the outcomes for the
\* values of the field of ub that decides them
RECURSIVE Refine(_, _, _, _)
Refine(s, len, R, k) ==
    IF k > Len(Stages) THEN R
    ELSE Refine(s, len,
                UNION {IF Stages[k][1] \cap o.r.mix.hit = {} THEN {o}
                       ELSE {IF u = o.ub THEN o
                             ELSE [ub |-> u, r |-> GUS_CallBack(s, len, u)] :
                                u \in {[o.ub EXCEPT ![Stages[k][2]] = x] :
                                          x \in Choices(s, k)}} :
                       o \in R},
                k + 1)

\* every outcome of GUS_CallBack(len) in state s
Outcomes(s, len) ==
    Refine(s, len, {[ub |-> NoUB, r |-> GUS_CallBack(s, len, NoUB)]}, 1)

\* what the mixer is handed by a callback that ran after a store outside an
\* array and ended in state d: nothing if the process was killed or hangs,
\* and len frames that are not determined if it returned
Strayed(d, len) ==
    [s |-> d,
     mix |-> IF d.fault # "none" \/ d.hang
             THEN [NoMix EXCEPT !.hit = {"astray"}]
             ELSE [len |-> len,
                   accumulator |-> [k \in 1..len |-> <<Unspec, Unspec>>],
                   peak |-> [left |-> Unspec, right |-> Unspec],
                   limited |-> Unspec,
                   scaled |-> [k \in 1..len |-> <<Unspec, Unspec>>],
                   frames |-> <<>>, start |-> d.chan, hit |-> {"astray"}]]

\* the mixer's call of GUS_CallBack(len) on the enabled channel, as long as
\* no more than cap frames have been asked for, with every outcome of the
\* undefined behaviour the callback runs into
MixCallback(lens, cap) ==
    \E len \in lens :
        /\ fault = "none"
        /\ ~hang
        /\ ext.installed
        /\ IF Adrift(ext) THEN TRUE ELSE ext.enabled
        /\ host.frames + len <= cap
        /\ \E j \in Ways(ext.overwritten) :
           \E r \in (IF j = 0 THEN {o.r : o \in Outcomes(St, len)}
                      ELSE {Strayed(Astray(St)[j], len)}) :
               /\ Becomes(r.s)
               /\ mix' = r.mix
               /\ host' = [host EXCEPT
                              !.ops = Push(@, <<"mix", 0, len>>),
                              !.reads = 0, !.frames = @ + len]

\* the write of the port stores through curchan, which points at a deleted
\* voice
StoresThroughStale(s, port, iolen) ==
    /\ s.cur = Unspec
    /\ port = 773 \/ (port = 772 /\ iolen = 2)
    /\ s.gus.gRegSelect \in 0..13

\* the read of the port reads through curchan, which points at a deleted
\* voice
ReadsThroughStale(s, port) ==
    /\ s.cur = Unspec
    /\ port \in {772, 773}
    /\ s.gus.gRegSelect \in {128, 130, 131, 137, 138, 139, 141}

\* the host's write of one of the <<port, val, iolen>> of ws, as long as it
\* has written fewer than cap times
HostWrite(ws, cap) ==
    \E w \in ws :
        /\ fault = "none"
        /\ ~hang
        /\ ext.installed
        /\ host.writes < cap
        /\ \E j \in Ways(ext.overwritten
                          \/ StoresThroughStale(St, w[1], w[3])) :
               Becomes(IF j = 0 THEN write_gus(St, w[1], w[2], w[3])
                       ELSE Astray(St)[j])
        /\ mix' = mix
        /\ host' = [host EXCEPT !.ops = Push(@, <<"write", w[1], w[2]>>),
                                !.reads = 0, !.writes = @ + 1]

\* the host's byte read of a port of ports; reads of register 0x8F through
\* the data ports are counted, up to cap in a row.  A read through a
\* pointer to a deleted voice returns what lies there, or faults
HostRead(ports, cap) ==
    \E port \in ports :
        /\ fault = "none"
        /\ ~hang
        /\ ext.installed
        /\ host.reads < cap
        /\ \E j \in (IF ext.overwritten THEN Ways(TRUE)
                      ELSE IF ReadsThroughStale(St, port) THEN {0, 2}
                      ELSE {0}) :
               Becomes(IF j # 0 THEN Astray(St)[j]
                       ELSE IF ReadsThroughStale(St, port) THEN St
                       ELSE read_gus(St, port, 1).s)
        /\ mix' = mix
        /\ host' = [host EXCEPT
                       !.ops = Push(@, <<"read", port, myGUS.gRegSelect>>),
                       !.reads = IF port \in {772, 773}
                                    /\ myGUS.gRegSelect = 143
                                 THEN @ + 1 ELSE 0]

\* the emulator shuts down and calls GUS_ShutDown.  After a store outside
\* an array the destructor resets and deletes through pointers that are
\* not determined; if it returns, the object and its handlers are gone
ShutDown ==
    /\ fault = "none"
    /\ ~hang
    /\ ext.object
    /\ \E j \in Ways(ext.overwritten) :
           Becomes(IF j = 0 THEN GUS_ShutDown(St)
                   ELSE IF j = 1
                   THEN [Gone(St) EXCEPT !.chan = <<>>, !.ext.object = FALSE,
                                         !.ext.installed = FALSE]
                   ELSE Astray(St)[j])
    /\ mix' = mix
    /\ host' = [host EXCEPT !.ops = Push(@, <<"shutdown", 0, 0>>),
                            !.reads = 0]

\* the emulator calls GUS_Init again after GUS_ShutDown, with one of the
\* configurations <<gus, gusdma, gusirq>> of cards, as long as it has
\* called GUS_Init fewer than cap times.  After a store outside an array
\* the constructor, if it returns, leaves a card with its handlers, its
\* mixer channel and 32 voices on statics that are not determined
Restart(cards, cap) ==
    \E card \in cards :
        /\ fault = "none"
        /\ ~hang
        /\ ~ext.object
        /\ host.inits < cap
        /\ \E j \in Ways(ext.overwritten) :
               Becomes(IF j = 0 THEN GUS_Init(St, card[1], card[2], card[3])
                       ELSE IF j = 1
                       THEN IF card[1]
                            THEN [Gone(St) EXCEPT !.ext.object = TRUE,
                                                  !.ext.installed = TRUE]
                            ELSE [St EXCEPT !.ext.object = TRUE]
                       ELSE Astray(St)[j])
        /\ mix' = mix
        /\ host' = [host EXCEPT !.ops = Push(@, <<"construct", 0, 0>>),
                                !.reads = 0, !.inits = @ + 1]

\* the step is the host's read of the port with register sel selected
Reads(port, sel) ==
    /\ host'.ops[3] = <<"read", port, sel>>
    /\ host'.writes = host.writes
    /\ host'.frames = host.frames
    /\ host'.events = host.events

\* the step is the host's write of val to the port
Writes(port, val) ==
    /\ host'.writes = host.writes + 1
    /\ host'.ops[3] = <<"write", port, val>>

\* the sequence q without its k-th element
Without(q, k) == SubSeq(q, 1, k - 1) \o SubSeq(q, k + 1, Len(q))

\* the PIC fires one of the events queued by PIC_AddEvent and calls
\* GUS_TimerEvent with its value, as long as fewer than cap events have been
\* delivered
TimerExpiry(cap) ==
    \E k \in (IF Adrift(ext) THEN {0} ELSE DOMAIN ext.events) :
        /\ fault = "none"
        /\ ~hang
        /\ host.events < cap
        /\ \E j \in Ways(ext.overwritten) :
               Becomes(IF j = 0
                       THEN GUS_TimerEvent(
                                [St EXCEPT !.ext.events = Without(@, k)],
                                ext.events[k])
                       ELSE IF Adrift(ext) THEN Astray(St)[j]
                       ELSE Astray([St EXCEPT
                                       !.ext.events = Without(@, k)])[j])
        /\ mix' = mix
        /\ host' = [host EXCEPT
                       !.ops = Push(@, <<"timer", 0,
                                         IF Adrift(ext) THEN Unspec
                                         ELSE ext.events[k]>>),
                       !.reads = 0, !.events = @ + 1]

\* whether the callback is registered on DMA channel c: 1 if it is, 0 if
\* not, Unspec if that is not determined
Registered(e, c) ==
    IF Adrift(e) THEN Unspec ELSE IF c \in e.dmacb THEN 1 ELSE 0

\* the DMA controller unmasks channel c and calls the callback registered on
\* it, if there is one, with the bytes the channel's Read delivers; as
\* long as fewer than cap events have been delivered
DmaUnmask(chans, datas, cap) ==
    \E c \in chans, data \in datas :
        /\ fault = "none"
        /\ ~hang
        /\ host.events < cap
        /\ \E j \in (IF Registered(ext, c) = 0 THEN {0}
                      ELSE IF Adrift(ext) THEN {0} \cup Ways(TRUE)
                      ELSE Ways(ext.overwritten)) :
           \E segv \in (IF ~ext.overwritten /\ Registered(ext, c) = 1
                            /\ DmaStrays(myGUS, data)
                         THEN BOOLEAN ELSE {FALSE}) :
               Becomes(IF j # 0 THEN Astray(St)[j]
                       ELSE IF Registered(ext, c) = 1
                       THEN GUS_DMA_Callback(St, c, data, segv)
                       ELSE St)
        /\ mix' = mix
        /\ host' = [host EXCEPT
                       !.ops = Push(@, <<"dma", c, Registered(ext, c)>>),
                       !.reads = 0, !.events = @ + 1,
                       !.dma = IF Registered(ext, c) = 0 THEN @
                               ELSE IF ext.overwritten
                               THEN <<Unspec, Unspec>>
                               ELSE <<DmaAddr(myGUS),
                                      DmaAddr(myGUS) + Len(data)>>]

-----------------------------------------------------------------------------
(* SpecVoice: one voice, programmed by the host in one of the ways of        *)
(* VoiceConfigs, and then mixed block after block.                           *)

MaxFramesVoice == 12

VoiceLens == {1, 4}

\* sample bytes the host has poked before it starts the voice
VoiceRam ==
    PokeAt(0, 64) \o PokeAt(1, 32) \o PokeAt(2, 224) \o PokeAt(3, 16)
        \o PokeAt(4, 127) \o PokeAt(5, 254)

VoiceConfigs ==
    {[freq |-> f, start |-> b[1], end |-> b[2], addr |-> b[3], rate |-> 0,
      rstart |-> 0, rend |-> 0, vol |-> GUS_VOLUME_POSITIONS - 1, pan |-> pn,
      rctrl |-> rc, wctrl |-> wc] :
        f \in {400, 1024, 2047, 4096},
        b \in {<<0, 2048, 0>>, <<512, 1536, 1024>>, <<0, 1300, 1300>>},
        pn \in {7},
        rc \in {1, 2, 5},
        wc \in {0, 1, 4, 8, 40, 24, 56, 88, 64, 104}}

\* a voice above the active ones, which the host leaves running
IdleVoice == GUS_MIN_CHANNELS + 6

IdleConfig ==
    [freq |-> 1024, start |-> 0, end |-> 2048, addr |-> 0, rate |-> 0,
     rstart |-> 0, rend |-> 0, vol |-> GUS_VOLUME_POSITIONS - 1, pan |-> 7,
     rctrl |-> 0, wctrl |-> 0]

InitVoice ==
    /\ \E c \in VoiceConfigs :
           Is(After(Program(Construct(3, 5),
                              Activate(GUS_MIN_CHANNELS) \o VoiceRam
                                  \o VoiceSetup(IdleVoice, IdleConfig)),
                      VoiceSetup(0, c)))
    /\ mix = NoMix
    /\ host = NoHost

MixVoice == MixCallback(VoiceLens, MaxFramesVoice)

NextVoice == MixVoice

SpecVoice == InitVoice /\ [][NextVoice]_vars

Frames == {mix.frames[k] : k \in DOMAIN mix.frames}

\* the accumulator slot of frame k as the float sum of what the logged
\* frames added, in the order they were added
RECURSIVE SumAdds(_, _, _)
SumAdds(log, k, side) ==
    IF log = <<>> THEN 0
    ELSE FAdd(SumAdds(SubSeq(log, 1, Len(log) - 1), k, side),
              IF log[Len(log)].frame = k THEN log[Len(log)].add[side] ELSE 0)

\* C1 as stated: a frame generated while wave_ctrl has bit 0 or 1 set leaves
\* wave_addr unchanged and adds nothing to the accumulator, whatever ramp_ctrl
C1_StoppedAddsNothing ==
    \A e \in Frames :
        HasBits(e.WaveCtrl, 3) =>
            e.WaveAddr1 = e.WaveAddr /\ e.add = <<0, 0>>

\* the frames voice i added to slot k of the accumulator in the last block
Added(i, k) ==
    {j \in DOMAIN mix.frames :
        mix.frames[j].voice = i /\ mix.frames[j].frame = k}

\* C1 amended: a frame generated while wave_ctrl has bit 0 or 1 set leaves
\* wave_addr unchanged.  A voice adds one sample to every frame of a block
\* if its index is below the active-voice count and (ramp_ctrl AND wave_ctrl
\* AND 3) is 0 at the start of the block, and none to any frame of it
\* otherwise; the frames of a block that a fault cuts short are frames of
\* such voices too; and the accumulator holds exactly what the generated
\* frames added
C1_StoppedHoldsAddr ==
    /\ \A e \in Frames :
           /\ HasBits(e.WaveCtrl, 3) => e.WaveAddr1 = e.WaveAddr
           /\ e.voice < myGUS.ActiveChannels
           /\ ~Disabled(mix.start[e.voice])
    /\ \A i \in Voices, k \in 1..mix.len :
           Cardinality(Added(i, k))
               = (IF i < myGUS.ActiveChannels /\ ~Disabled(mix.start[i])
                  THEN 1 ELSE 0)
    /\ \A k \in 1..mix.len :
           /\ mix.accumulator[k][1] = SumAdds(mix.frames, k, 1)
           /\ mix.accumulator[k][2] = SumAdds(mix.frames, k, 2)

\* C1 witness: a block of four frames in which voice 0 generated a frame
\* with a wave stop bit set that added a sample, the active voice 1 was
\* found disabled and added nothing, and the idle voice, not disabled but
\* above the active ones, added nothing either
C1_Witness ==
    /\ mix.len = 4
    /\ \E e \in Frames :
           e.voice = 0 /\ HasBits(e.WaveCtrl, 3) /\ e.add # <<0, 0>>
    /\ 1 < myGUS.ActiveChannels
    /\ Disabled(mix.start[1])
    /\ \A k \in 1..mix.len : Added(1, k) = {}
    /\ IdleVoice >= myGUS.ActiveChannels
    /\ ~Disabled(mix.start[IdleVoice])
    /\ \A k \in 1..mix.len : Added(IdleVoice, k) = {}

\* the frame e was generated by a voice that is forward or backward inside
\* its bounds, running, looping, not rolling over, with a step no longer
\* than the loop
InLoop(e) ==
    /\ ~HasBits(e.WaveCtrl, WCTRL_STOPPED + WCTRL_STOP)
    /\ Bit(e.WaveCtrl, 3) = 1
    /\ Bit(e.RampCtrl, 2) = 0
    /\ guschan[e.voice].WaveStart <= e.WaveAddr
    /\ e.WaveAddr <= guschan[e.voice].WaveEnd
    /\ guschan[e.voice].WaveAdd <= guschan[e.voice].WaveEnd
                                       - guschan[e.voice].WaveStart

\* C6: a forward voice with loop and IRQ enabled, ramp rollover clear,
\* wave_start <= wave_addr <= wave_end and wave_add <= wave_end - wave_start:
\* no frame sets a stop bit, every frame leaves wave_addr within the bounds,
\* a frame that reaches wave_end sets the voice's wave_irq bit and (the voice
\* not being bidirectional) wraps wave_addr to wave_start plus the overshoot
\* with wave_ctrl as it was; a frame that does not reach wave_end only
\* advances wave_addr and leaves the wave_irq bit and wave_ctrl alone
C6_ForwardLoopIrq ==
    \A e \in Frames :
        (InLoop(e) /\ Bit(e.WaveCtrl, 6) = 0 /\ Bit(e.WaveCtrl, 5) = 1)
        => /\ ~HasBits(e.WaveCtrl1, WCTRL_STOPPED + WCTRL_STOP)
           /\ guschan[e.voice].WaveStart <= e.WaveAddr1
           /\ e.WaveAddr1 <= guschan[e.voice].WaveEnd
           /\ IF e.WaveAddr + guschan[e.voice].WaveAdd
                     >= guschan[e.voice].WaveEnd
              THEN /\ e.wirq
                   /\ Bit(e.WaveCtrl, 4) = 0
                      => /\ e.WaveCtrl1 = e.WaveCtrl
                         /\ e.WaveAddr1 = guschan[e.voice].WaveStart
                                + (e.WaveAddr + guschan[e.voice].WaveAdd
                                       - guschan[e.voice].WaveEnd)
              ELSE /\ e.wirq = e.wirq0
                   /\ e.WaveCtrl1 = e.WaveCtrl
                   /\ e.WaveAddr1 = e.WaveAddr + guschan[e.voice].WaveAdd

\* C6 witness: a forward looping voice with IRQ enabled reached wave_end
\* with an overshoot in a frame, its wave_irq bit clear before the frame
C6_Witness ==
    \E e \in Frames :
        /\ InLoop(e)
        /\ Bit(e.WaveCtrl, 6) = 0 /\ Bit(e.WaveCtrl, 5) = 1
        /\ Bit(e.WaveCtrl, 4) = 0
        /\ e.WaveAddr + guschan[e.voice].WaveAdd > guschan[e.voice].WaveEnd
        /\ ~e.wirq0

\* the frame e took the voice to the boundary it was heading for
ReachedBoundary(e) ==
    IF Bit(e.WaveCtrl, 6) = 1
    THEN e.WaveAddr - guschan[e.voice].WaveAdd <= guschan[e.voice].WaveStart
    ELSE e.WaveAddr + guschan[e.voice].WaveAdd >= guschan[e.voice].WaveEnd

\* C7: a voice with loop and bidirectional set, ramp rollover clear,
\* wave_start <= wave_addr <= wave_end and wave_add <= wave_end - wave_start:
\* a frame flips the direction bit exactly when it reaches the boundary the
\* voice was heading for, changes no other bit of wave_ctrl, and leaves
\* wave_addr within the two bounds
C7_BidirectionalLoop ==
    \A e \in Frames :
        (InLoop(e) /\ Bit(e.WaveCtrl, 4) = 1)
        => /\ e.WaveCtrl1 = (IF ReachedBoundary(e)
                             THEN FlipBit(e.WaveCtrl, 6) ELSE e.WaveCtrl)
           /\ guschan[e.voice].WaveStart <= e.WaveAddr1
           /\ e.WaveAddr1 <= guschan[e.voice].WaveEnd

\* C7 witness: one block in which a bidirectional looping voice turned round
\* at wave_end and, in a later frame, at wave_start
C7_Witness ==
    \E e, f \in Frames :
        /\ InLoop(e) /\ Bit(e.WaveCtrl, 4) = 1
        /\ InLoop(f) /\ Bit(f.WaveCtrl, 4) = 1
        /\ e.voice = f.voice /\ e.frame < f.frame
        /\ Bit(e.WaveCtrl, 6) = 0 /\ ReachedBoundary(e)
        /\ Bit(f.WaveCtrl, 6) = 1 /\ ReachedBoundary(f)

-----------------------------------------------------------------------------
(* SpecS2: scenario S2.  The host fills memory[k] with k - 128 for k in      *)
(* 0..255, programs voice 0 to play it once forward at one byte a frame with *)
(* the ramp stopped, and the mixer then asks for blocks of frames.           *)

S2Frames == 256

MaxFramesS2 == 330

S2Lens == {25, GUS_BUFFER_FRAMES}

\* memory[k] of the scenario, as the byte the host pokes
S2Byte(k) == (k - 128) % 256

\* memory[k] of the scenario as the signed 8-bit sample it is played as,
\* times 2^8
S2Sample(k) ==
    (IF S2Byte(k) < 128 THEN S2Byte(k) ELSE S2Byte(k) - 256) * 256

S2Ram ==
    [j \in 1 .. (5 * S2Frames) |->
        PokeAt((j - 1) \div 5, S2Byte((j - 1) \div 5))[((j - 1) % 5) + 1]]

S2Voice(rc) ==
    [freq |-> 2 * WAVE_FRACT_ONE, start |-> 0,
     end |-> (S2Frames - 1) * WAVE_FRACT_ONE, addr |-> 0, rate |-> 0,
     rstart |-> 0, rend |-> 0, vol |-> GUS_VOLUME_POSITIONS - 1, pan |-> 7,
     rctrl |-> rc, wctrl |-> 0]

\* ramp_ctrl values with the ramp stopped: bit 0, bit 1 or both, alone, with
\* the rollover bit 2, and with the loop and direction bits 3 and 6
S2Ramps == {1, 2, 3, 5, 6, 7, 75, 77}

InitS2 ==
    /\ \E rc \in S2Ramps :
           Is(After(Program(Construct(3, 5),
                              Activate(GUS_MIN_CHANNELS) \o S2Ram),
                      VoiceSetup(0, S2Voice(rc))))
    /\ mix = NoMix
    /\ host = NoHost

MixS2 == MixCallback(S2Lens, MaxFramesS2)

NextS2 == MixS2

SpecS2 == InitS2 /\ [][NextS2]_vars

\* the number, counted from 0 over all blocks, of the frame e of the last
\* block
FrameNo(e) == (host.frames - mix.len) + (e.frame - 1)

\* C5 as stated: frame k of voice 0 reads memory[k] for k = 0..255, the
\* stopped bit is set by the 256th frame and by no frame before it, and the
\* voice's wave_irq bit stays 0
C5_StopsOn256th ==
    /\ 0 \notin myGUS.WaveIRQ
    /\ \A e \in Frames :
           (e.voice = 0 /\ FrameNo(e) < S2Frames)
           => /\ e.read = FrameNo(e)
              /\ Bit(e.WaveCtrl1, 0) = (IF FrameNo(e) = S2Frames - 1
                                        THEN 1 ELSE 0)

\* C5 amended: with the ramp stopped and bit 2 of ramp_ctrl clear, frame k
\* of voice 0 is generated and reads memory[k] for k = 0..254, adding
\* memory[k] * 2^8 at full volume and centre pan; the stopped bit is set by
\* the 255th frame (k = 254), which parks wave_addr at wave_end, and by no
\* frame before it; a later frame, if one is generated, finds the voice
\* stopped and reads memory[255].  With the ramp stopped and bit 2 of
\* ramp_ctrl set the voice does not stop: every frame k is generated with
\* wave_ctrl 0, reads address k and leaves wave_ctrl 0.  wave_irq stays 0
\* in both cases, and ramp_ctrl stays as the host wrote it
C5_StopsOn255th ==
    /\ 0 \notin myGUS.WaveIRQ
    /\ guschan[0].RampCtrl \in S2Ramps
    /\ HasBits(guschan[0].RampCtrl, 3)
    /\ \A j \in 1 .. mix.len :
           ((host.frames - mix.len) + (j - 1) < S2Frames - 1
               \/ Bit(guschan[0].RampCtrl, 2) = 1)
           => \E e \in Frames : e.voice = 0 /\ e.frame = j
    /\ \A e \in Frames :
           /\ e.voice = 0
           /\ ~e.wirq
           /\ e.RampCtrl = guschan[0].RampCtrl
           /\ IF Bit(e.RampCtrl, 2) = 1
              THEN /\ e.read = FrameNo(e)
                   /\ e.WaveCtrl = 0
                   /\ e.WaveCtrl1 = 0
                   /\ e.WaveAddr1 = (FrameNo(e) + 1) * WAVE_FRACT_ONE
                   /\ e.add[1] = (IF FrameNo(e) < S2Frames
                                  THEN FMul(FFromInt(S2Sample(FrameNo(e))),
                                            pan_scalars(7).left)
                                  ELSE 0)
              ELSE IF FrameNo(e) < S2Frames - 1
              THEN /\ e.read = FrameNo(e)
                   /\ e.WaveCtrl = 0
                   /\ e.add[1] = FMul(FFromInt(S2Sample(FrameNo(e))),
                                      pan_scalars(7).left)
                   /\ e.WaveCtrl1 = (IF FrameNo(e) = S2Frames - 2
                                     THEN WCTRL_STOPPED ELSE 0)
                   /\ FrameNo(e) = S2Frames - 2
                      => e.WaveAddr1 = guschan[0].WaveEnd
              ELSE /\ e.read = S2Frames - 1
                   /\ e.WaveCtrl = WCTRL_STOPPED
                   /\ e.WaveAddr1 = guschan[0].WaveEnd

\* C5 witness: with the rollover bit clear, the block in which the voice
\* stopped has been generated, and it holds a frame after the stop
C5_Witness ==
    /\ Bit(guschan[0].RampCtrl, 2) = 0
    /\ \E e \in Frames :
           e.voice = 0 /\ FrameNo(e) = S2Frames - 2
               /\ e.WaveCtrl1 = WCTRL_STOPPED
    /\ \E e \in Frames : e.voice = 0 /\ FrameNo(e) = S2Frames - 1

-----------------------------------------------------------------------------
(* SpecReset: a voice is playing; the host selects registers and writes the  *)
(* reset register through either data port, and the mixer asks for blocks.   *)

MaxWritesReset == 3

MaxFramesReset == 128

\* select the reset register or the voice control register; write 0x01 or
\* 0x00 to the high data byte; write 0x0001 or 0x0100 to the data word
ResetWrites ==
    {<<771, 76, 1>>, <<771, 0, 1>>, <<773, 1, 1>>, <<773, 0, 1>>,
     <<772, 1, 2>>, <<772, 256, 2>>}

ResetConfigs ==
    {c \in VoiceConfigs :
        /\ c.freq = 400 /\ c.start = 0 /\ c.addr = 0
        /\ c.wctrl \in {0, 1, 8, 24}}

InitReset ==
    /\ \E c \in ResetConfigs :
           Is(After(Construct(3, 5),
                      Activate(GUS_MIN_CHANNELS) \o VoiceRam \o VoiceSetup(0, c)))
    /\ mix = NoMix
    /\ host = NoHost

WriteReset == HostWrite(ResetWrites, MaxWritesReset)

MixReset == MixCallback({GUS_BUFFER_FRAMES}, MaxFramesReset)

NextReset == WriteReset \/ MixReset

SpecReset == InitReset /\ [][NextReset]_vars

\* the last block emitted zero on both channels of every frame
Silent == \A k \in 1 .. mix.len : mix.scaled[k] = <<0, 0>>

\* C4 as stated: after the host selects register 0x4C (port 0x303) and writes
\* 0x01 to the high data byte (port 0x305), the next mix callback of 64
\* frames emits zero on both channels of every frame
C4_SilenceAfterReset ==
    (/\ host.ops[1] = <<"write", 771, 76>>
     /\ host.ops[2] = <<"write", 773, 1>>
     /\ host.ops[3] = <<"mix", 0, GUS_BUFFER_FRAMES>>)
    => Silent

\* what does hold: a data word with bit 0 set written to register 0x4C
\* (port 0x304) silences the next block
SilenceAfterWordReset ==
    (/\ host.ops[1] = <<"write", 771, 76>>
     /\ host.ops[2] = <<"write", 772, 1>>
     /\ host.ops[3] = <<"mix", 0, GUS_BUFFER_FRAMES>>)
    => Silent

-----------------------------------------------------------------------------
(* SpecDrain: with 32 voices active the host has raised the wave IRQ of a    *)
(* high voice and then of the low voices 0..n-1; it now sets the active      *)
(* count, selects registers and reads the IRQ status register.               *)

MaxWritesDrain == 3

MaxReadsDrain == 16

\* the writes that raise the wave IRQ of voice i by hand, the voice stopped
VoiceIrq(i) == <<<<770, i, 1>>>> \o SetReg(0, 163 * 256)

\* VoiceIrq of the voices 0 .. n-1 in turn
VoiceIrqs(n) ==
    [j \in 1 .. (3 * n) |-> VoiceIrq((j - 1) \div 3)[((j - 1) % 3) + 1]]

\* select 0x0E or 0x8F; write 13 or 31 to the high data byte
DrainWrites == {<<771, 14, 1>>, <<771, 143, 1>>, <<773, 13, 1>>, <<773, 31, 1>>}

InitDrain ==
    /\ \E first \in {20, 31}, n \in {2, GUS_MIN_CHANNELS} :
           Is(After(Construct(3, 5),
                      Activate(GUS_MAX_CHANNELS) \o VoiceIrq(first)
                          \o VoiceIrqs(n)))
    /\ mix = NoMix
    /\ host = NoHost

WriteDrain == HostWrite(DrainWrites, MaxWritesDrain)

ReadDrain == HostRead({773}, MaxReadsDrain)

NextDrain == WriteDrain \/ ReadDrain

SpecDrain == InitDrain /\ [][NextDrain]_vars

\* irq_status has bits 5 and 6 clear
Drained == Bit(myGUS.IRQStatus, 5) = 0 /\ Bit(myGUS.IRQStatus, 6) = 0

\* C3 as stated: every read of register 0x8F terminates, and once the host
\* has read it as many times in a row as there are active voices, with no
\* other operation in between, irq_status has bits 5 and 6 clear
C3_DrainWithinActive ==
    /\ ~hang
    /\ host.reads >= myGUS.ActiveChannels => Drained

\* what does hold: one read more than there are active voices drains
DrainWithinActivePlusOne ==
    /\ ~hang
    /\ host.reads >= myGUS.ActiveChannels + 1 => Drained

\* the voices below the active count with a wave or ramp IRQ pending
PendingActive == (myGUS.RampIRQ \cup myGUS.WaveIRQ) \cap myGUS.ActiveMask

\* the byte the host would read now from port 0x305
StatusNow == read_gus(St, 773, 1).ret

\* C21: a read of register 0x8F reports in bits 0-4 the cursor IRQChan held
\* before the read, clears that voice's bit in WaveIRQ and in RampIRQ and no
\* other bit, and leaves the cursor on a pending active voice whenever one
\* is left
C21_ReadReportsAndClears ==
    [][Reads(773, 143)
       => /\ StatusNow % 32 = myGUS.IRQChan
          /\ myGUS'.WaveIRQ = myGUS.WaveIRQ \ {myGUS.IRQChan}
          /\ myGUS'.RampIRQ = myGUS.RampIRQ \ {myGUS.IRQChan}
          /\ PendingActive' # {} => myGUS'.IRQChan \in PendingActive']_vars

\* C21 witness: the second read in a row has cleared a voice and left the
\* cursor on another active voice that is still pending
C21_Witness ==
    /\ host.ops[3] = <<"read", 773, 143>>
    /\ host.ops[2] = <<"read", 773, 143>>
    /\ host.reads >= 2
    /\ myGUS.IRQChan \in PendingActive
    /\ Cardinality(PendingActive) >= 2

-----------------------------------------------------------------------------
(* SpecLimit: one or two 16-bit voices at full volume play samples at and    *)
(* around the limiter's threshold, and the mixer asks for short blocks.      *)

MaxFramesLimit == 8

LimitLens == {1, 2}

\* 16-bit samples 32766, 100, 32767, -32768, 16000 at sample indices 0..4
LimitRam ==
    PokeAt(0, 254) \o PokeAt(1, 127) \o PokeAt(2, 100) \o PokeAt(3, 0)
        \o PokeAt(4, 255) \o PokeAt(5, 127) \o PokeAt(6, 0) \o PokeAt(7, 128)
        \o PokeAt(8, 128) \o PokeAt(9, 62)

LimitConfigs ==
    {[freq |-> 2 * WAVE_FRACT_ONE, start |-> 0, end |-> e * WAVE_FRACT_ONE,
      addr |-> a * WAVE_FRACT_ONE, rate |-> 0, rstart |-> 0, rend |-> 0,
      vol |-> GUS_VOLUME_POSITIONS - 1, pan |-> pn, rctrl |-> 1,
      wctrl |-> wc] :
        e \in {2, 5}, a \in {0, 1, 2, 4}, pn \in {0, 7, 15},
        wc \in {WCTRL_16BIT, WCTRL_16BIT + WCTRL_LOOP}}

InitLimit ==
    /\ \E c \in LimitConfigs, two \in BOOLEAN :
           Is(After(Construct(3, 5),
                      Activate(GUS_MIN_CHANNELS) \o LimitRam
                          \o VoiceSetup(0, c)
                          \o (IF two THEN VoiceSetup(1, c) ELSE <<>>)))
    /\ mix = NoMix
    /\ host = NoHost

MixLimit == MixCallback(LimitLens, MaxFramesLimit)

NextLimit == MixLimit

SpecLimit == InitLimit /\ [][NextLimit]_vars

\* C8: when both peaks are strictly below INT16_MAX - 1 at the end of voice
\* generation, SoftLimit reports no limiting and leaves both peaks as they
\* are, and every emitted sample is the accumulator's value truncated
\* toward zero
C8_LimiterNoOp ==
    (/\ mix.len > 0
     /\ mix.peak.left < FFromInt(INT16_MAX - 1)
     /\ mix.peak.right < FFromInt(INT16_MAX - 1))
    => /\ ~mix.limited
       /\ myGUS.peak_amplitude = mix.peak
       /\ \A k \in 1 .. mix.len :
              /\ FFromInt(Abs(mix.scaled[k][1])) <= Abs(mix.accumulator[k][1])
              /\ Abs(mix.accumulator[k][1])
                     < FFromInt(Abs(mix.scaled[k][1]) + 1)
              /\ mix.scaled[k][1] > 0 => mix.accumulator[k][1] > 0
              /\ mix.scaled[k][1] < 0 => mix.accumulator[k][1] < 0
              /\ FFromInt(Abs(mix.scaled[k][2])) <= Abs(mix.accumulator[k][2])
              /\ Abs(mix.accumulator[k][2])
                     < FFromInt(Abs(mix.scaled[k][2]) + 1)
              /\ mix.scaled[k][2] > 0 => mix.accumulator[k][2] > 0
              /\ mix.scaled[k][2] < 0 => mix.accumulator[k][2] < 0

\* C8 witness: a block ended with both peaks below the threshold and a frame
\* whose accumulator is not a whole number
C8_Witness ==
    /\ mix.len > 0
    /\ mix.peak.left < FFromInt(INT16_MAX - 1)
    /\ mix.peak.right < FFromInt(INT16_MAX - 1)
    /\ \E k \in 1 .. mix.len :
           FFromInt(Abs(mix.scaled[k][1])) < Abs(mix.accumulator[k][1])

\* every accumulator magnitude of the last block is below the threshold
Quiet ==
    \A k \in 1 .. mix.len :
        /\ Abs(mix.accumulator[k][1]) < FFromInt(INT16_MAX - 1)
        /\ Abs(mix.accumulator[k][2]) < FFromInt(INT16_MAX - 1)

\* C9 as stated: in a block whose accumulator magnitudes are all below the
\* threshold and in which the limiter is engaged, each peak that is at or
\* above the threshold, a peak exactly at the threshold included, comes out
\* strictly smaller
C9_ReleaseWhileEngaged ==
    (mix.len > 0 /\ Quiet /\ mix.limited)
    => /\ mix.peak.left >= FFromInt(INT16_MAX - 1)
          => myGUS.peak_amplitude.left < mix.peak.left
       /\ mix.peak.right >= FFromInt(INT16_MAX - 1)
          => myGUS.peak_amplitude.right < mix.peak.right

\* what does hold: a peak strictly above the threshold is released
ReleaseAboveThreshold ==
    (mix.len > 0 /\ mix.limited)
    => /\ mix.peak.left > FFromInt(INT16_MAX - 1)
          => myGUS.peak_amplitude.left < mix.peak.left
       /\ mix.peak.right > FFromInt(INT16_MAX - 1)
          => myGUS.peak_amplitude.right < mix.peak.right

-----------------------------------------------------------------------------
(* SpecIrq: with 14 or 32 voices active and IRQs raised by hand on some      *)
(* voices, a timer running or a voice playing, the host selects voices and   *)
(* registers, writes the control, active-voices and reset registers, reads   *)
(* the IRQ status register, and timers expire and the mixer asks for frames. *)

MaxWritesIrq == 2

MaxReadsIrq == 1

MaxEventsIrq == 1

MaxFramesIrq == 1

\* the writes that raise the ramp IRQ of voice i by hand, the ramp stopped
RampIrq(i) == <<<<770, i, 1>>>> \o SetReg(13, 163 * 256)

\* the writes that let timer 1 raise IRQs and start it
TimerRun == SetReg(69, 4 * 256) \o <<<<521, 1, 1>>>>

\* a voice that loops over four samples at full volume with its wave IRQ
\* enabled
IrqVoice ==
    [freq |-> 2048, start |-> 0, end |-> 2048, addr |-> 1024, rate |-> 0,
     rstart |-> 0, rend |-> 0, vol |-> GUS_VOLUME_POSITIONS - 1, pan |-> 7,
     rctrl |-> 1, wctrl |-> 40]

\* what the host has done before, as <<active voices, writes>>: each leaves a
\* voice and a register selected
IrqPreludes ==
    {<<GUS_MIN_CHANNELS, TimerRun \o VoiceIrq(20) \o RampIrq(3)>>,
     <<GUS_MAX_CHANNELS, RampIrq(20) \o <<<<770, 0, 1>>, <<771, 0, 1>>>>>>,
     <<GUS_MAX_CHANNELS, VoiceRam \o VoiceSetup(0, IrqVoice) \o TimerRun>>,
     <<GUS_MIN_CHANNELS, <<<<770, 20, 1>>>> \o TimerRun>>}

\* select the wave control, ramp control, active-voices, reset or IRQ status
\* register of the voice the prelude left selected (0, 3 or 20); write a data
\* word: control values 0xA0 and 0xC0, 14 active voices, reset with IRQs on
IrqWrites ==
    {<<771, r, 1>> : r \in {0, 13, 14, 76, 143}}
        \cup {<<772, d, 2>> : d \in {40960, 49152, 3328, 5}}

InitIrq ==
    /\ \E pre \in IrqPreludes :
           Is(After(Construct(3, 5), Activate(pre[1]) \o pre[2]))
    /\ mix = NoMix
    /\ host = NoHost

WriteIrq == HostWrite(IrqWrites, MaxWritesIrq)

\* the host reads the IRQ status register once it has selected it
ReadIrq == myGUS.gRegSelect = 143 /\ HostRead({773}, MaxReadsIrq)

TimerIrq == TimerExpiry(MaxEventsIrq)

MixIrq == MixCallback({1}, MaxFramesIrq)

NextIrq == WriteIrq \/ ReadIrq \/ TimerIrq \/ MixIrq

SpecIrq == InitIrq /\ [][NextIrq]_vars

\* the host has just written a data word with bit 0 set to the reset register
ResetDone ==
    /\ host.ops[3][1] = "write" /\ host.ops[3][2] = 772
    /\ host.ops[3][3] % 2 = 1
    /\ myGUS.gRegSelect = 76

\* C11: after register 0x4C is executed with bit 0 of the data set, every
\* voice has wave_ctrl = 1, ramp_ctrl = 1, pan_pot = 7 and ramp_cur = 0; the
\* IRQ bitmaps, irq_status and irq_chan are 0; both timers have value 0xFF
\* and are neither running nor reached nor raising IRQs; and the peak is
\* (1.0, 1.0)
C11_ResetPostState ==
    ResetDone
    => /\ \A i \in Voices :
              /\ guschan[i].WaveCtrl = 1
              /\ guschan[i].RampCtrl = 1
              /\ guschan[i].PanPot = 7
              /\ guschan[i].CurrentVolIndex = 0
       /\ myGUS.WaveIRQ = {} /\ myGUS.RampIRQ = {}
       /\ myGUS.IRQStatus = 0 /\ myGUS.IRQChan = 0
       /\ \A t \in 1 .. 2 :
              /\ myGUS.timers[t].value = 255
              /\ ~myGUS.timers[t].running
              /\ ~myGUS.timers[t].reached
              /\ ~myGUS.timers[t].raiseirq
       /\ myGUS.peak_amplitude = [left |-> FFromInt(1), right |-> FFromInt(1)]

\* C11 witness: the reset came right after a timer had expired and raised
\* its IRQ, with the reset register selected in between
C11_Witness ==
    /\ ResetDone
    /\ host.ops[1][1] = "timer"
    /\ host.ops[2] = <<"write", 771, 76>>

\* the host has just written a data word to the reset register
ResetWritten ==
    /\ host.ops[3][1] = "write" /\ host.ops[3][2] = 772
    /\ myGUS.gRegSelect = 76

\* C12 as stated: executing register 0x4C sets the card-wide IRQ enable to
\* bit 2 of the data, and a handler that runs while it is disabled (any but
\* the write of 0x4C itself) never calls PIC_ActivateIRQ
C12_IrqEnableGates ==
    /\ ResetWritten => (myGUS.irqenabled <=> Bit(host.ops[3][3], 2) = 1)
    /\ (~myGUS.irqenabled /\ ~ResetWritten) => pic = {}

\* what does hold: the flag follows bit 2, and PIC_ActivateIRQ is called for
\* no line but irq1
IrqEnableFollowsBit2 ==
    /\ ResetWritten => (myGUS.irqenabled <=> Bit(host.ops[3][3], 2) = 1)
    /\ pic \subseteq {myGUS.irq1}

\* C16 as stated: once the active-voice count is set, the reporting cursor
\* satisfies 0 <= irq_chan < active_voices, also after the count is lowered
C16_CursorInRange ==
    myGUS.ActiveChannels >= GUS_MIN_CHANNELS
    => myGUS.IRQChan \in 0 .. (myGUS.ActiveChannels - 1)

\* what does hold: the cursor is a voice index, and it is below the count
\* whenever the voice it points at is pending and active
CursorIsVoiceIndex ==
    /\ myGUS.IRQChan \in Voices
    /\ myGUS.IRQChan \in (myGUS.WaveIRQ \cup myGUS.RampIRQ) \cap myGUS.ActiveMask
       => myGUS.IRQChan < myGUS.ActiveChannels

\* what a write of the control value val to voice i's wave control (sel = 0)
\* or ramp control (sel = 13) makes of the step, the manual IRQ being asked
\* for by the bits hi and lo of the value: the voice's bit of the bitmap is
\* set or cleared, the other bitmap stays, and irq_status is re-evaluated
\* exactly if the bitmap changed
ManualIrqStep(sel, i, val, hi, lo) ==
    LET asked == Bit(val, hi) = 1 /\ Bit(val, lo) = 1
        old == IF sel = 0 THEN myGUS.WaveIRQ ELSE myGUS.RampIRQ
        new == IF asked THEN old \cup {i} ELSE old \ {i}
        wave == IF sel = 0 THEN new ELSE myGUS.WaveIRQ
        ramp == IF sel = 0 THEN myGUS.RampIRQ ELSE new
        none == (wave \cup ramp) \cap myGUS.ActiveMask = {}
    IN  /\ myGUS'.WaveIRQ = wave
        /\ myGUS'.RampIRQ = ramp
        /\ IF new = old THEN myGUS'.IRQStatus = myGUS.IRQStatus /\ pic' = {}
           ELSE /\ Bit(myGUS'.IRQStatus, 5)
                       = (IF ~none /\ wave # {} THEN 1 ELSE 0)
                /\ Bit(myGUS'.IRQStatus, 6)
                       = (IF ~none /\ ramp # {} THEN 1 ELSE 0)

\* C19 as stated: a value written to a voice's wave or ramp control register
\* sets the voice's bit of the bitmap if bits 7 and 6 of the value are both
\* set and clears it otherwise, and the aggregator is re-evaluated whenever
\* the bitmap changed
C19_ManualIrqTopBits ==
    [][\A d \in {40960, 49152, 3328, 5}, sel \in {0, 13} :
          (Writes(772, d) /\ myGUS.gRegSelect = sel /\ curchan # NoChan)
          => ManualIrqStep(sel, curchan, d \div 256, 7, 6)
      ]_vars

\* C19 amended: the bit is set if bits 7 and 5 of the value are both set
\* and cleared otherwise, and the aggregator is re-evaluated whenever the
\* bitmap changed
C19_ManualIrqBits75 ==
    [][\A d \in {40960, 49152, 3328, 5}, sel \in {0, 13} :
          (Writes(772, d) /\ myGUS.gRegSelect = sel /\ curchan # NoChan)
          => ManualIrqStep(sel, curchan, d \div 256, 7, 5)
      ]_vars

\* C19 witness: the host has just written 0xA0 to the wave control of voice
\* 0, whose wave IRQ is now pending and reported in irq_status
C19_Witness ==
    /\ host.ops[3] = <<"write", 772, 40960>>
    /\ myGUS.gRegSelect = 0
    /\ curchan = 0
    /\ 0 \in myGUS.WaveIRQ
    /\ Bit(myGUS.IRQStatus, 5) = 1

\* the last handler ended with CheckVoiceIrq: a mix callback, or a read of
\* the IRQ status register
Reevaluated ==
    \/ host.ops[3][1] = "mix"
    \/ host.ops[3] = <<"read", 773, 143>>

\* C20 as stated: after a re-evaluation, irq_status bit 5 is set only if a
\* voice below the active count has its wave_irq bit set, and bit 6 only if
\* one has its ramp_irq bit set
C20_NoPhantomIrq ==
    Reevaluated
    => /\ Bit(myGUS.IRQStatus, 5) = 1
          => \E i \in myGUS.WaveIRQ : i < myGUS.ActiveChannels
       /\ Bit(myGUS.IRQStatus, 6) = 1
          => \E i \in myGUS.RampIRQ : i < myGUS.ActiveChannels

\* what does hold: after a re-evaluation a status bit is set only if its
\* bitmap is not empty and some voice below the active count is pending in
\* one of the two bitmaps
StatusNeedsSomeActiveIrq ==
    Reevaluated
    => /\ Bit(myGUS.IRQStatus, 5) = 1 => myGUS.WaveIRQ # {}
       /\ Bit(myGUS.IRQStatus, 6) = 1 => myGUS.RampIRQ # {}
       /\ (Bit(myGUS.IRQStatus, 5) = 1 \/ Bit(myGUS.IRQStatus, 6) = 1)
          => \E i \in myGUS.WaveIRQ \cup myGUS.RampIRQ :
                 i < myGUS.ActiveChannels

-----------------------------------------------------------------------------
(* SpecDma: the host latches the mix control, assigns the IRQ line and the   *)
(* DMA channel, writes the DMA control and DMA address registers, and the    *)
(* DMA controller unmasks channels.                                          *)

MaxWritesDma == 4

MaxEventsDma == 2

\* the DMA channels that unmask, and the bytes a transfer delivers
DmaChannels == {3, 7}

DmaDatas == {<<1, 200>>, <<128, 127>>}

\* latch the mix control with bit 6 set or clear; write 0x20B; select the DMA
\* control, the DMA address or the sampling control register; write a data
\* word: upload with and without terminal-count IRQ, upload of inverted
\* 16-bit data, no upload
DmaWrites ==
    {<<512, 75, 1>>, <<512, 11, 1>>, <<523, 0, 1>>, <<523, 13, 1>>,
     <<771, 65, 1>>, <<771, 66, 1>>, <<771, 73, 1>>}
        \cup {<<772, d, 2>> : d \in {8448, 256, 49408, 0}}

InitDma ==
    /\ Is(After(Construct(3, 5), Activate(GUS_MIN_CHANNELS)))
    /\ mix = NoMix
    /\ host = NoHost

WriteDma == HostWrite(DmaWrites, MaxWritesDma)

EventDma == DmaUnmask(DmaChannels, DmaDatas, MaxEventsDma)

NextDma == WriteDma \/ EventDma

SpecDma == InitDma /\ [][NextDma]_vars

\* the tables of the assignment, indexed from 1
irq_lut == <<0, 2, 5, 3, 7, 11, 12, 15>>

dma_lut == <<0, 1, 3, 5, 6, 7, 0, 0>>

\* C13: a write to port 0x20B while armed disarms and sets irq1 (bit 6 of
\* the latched mix control set) or dma1 (bit 6 clear) from the table entry
\* of value AND 7, leaving it as it is when the entry is 0, and changes
\* nothing else; an unarmed one changes no state; only a write to port 0x200
\* arms, and it does; and the assignment changes in no other step
C13_ReassignProtocol ==
    [][/\ \A val \in {0, 13} :
             Writes(523, val)
             => IF myGUS.ChangeIRQDMA
                THEN LET li == irq_lut[(val % 8) + 1]
                         ld == dma_lut[(val % 8) + 1]
                     IN  /\ myGUS' =
                              IF Bit(myGUS.mixControl, 6) = 1
                              THEN [myGUS EXCEPT
                                       !.ChangeIRQDMA = FALSE,
                                       !.irq1 = IF li = 0 THEN @ ELSE li]
                              ELSE [myGUS EXCEPT
                                       !.ChangeIRQDMA = FALSE,
                                       !.dma1 = IF ld = 0 THEN @ ELSE ld]
                         /\ UNCHANGED <<guschan, curchan, GUSRam,
                                        adlib_commandreg, ext, hang>>
                ELSE UNCHANGED <<myGUS, guschan, curchan, GUSRam,
                                 adlib_commandreg, ext, hang>>
       /\ \A val \in {75, 11} :
             Writes(512, val)
             => myGUS'.ChangeIRQDMA /\ myGUS'.mixControl = val
       /\ (myGUS'.ChangeIRQDMA /\ ~myGUS.ChangeIRQDMA)
             => \E val \in {75, 11} : Writes(512, val)
       /\ (myGUS'.irq1 # myGUS.irq1 \/ myGUS'.dma1 # myGUS.dma1)
             => (myGUS.ChangeIRQDMA /\ \E val \in {0, 13} : Writes(523, val))
      ]_vars

\* C13 witness: armed with bit 6 set, the host's write of 13 to port 0x20B
\* has moved the IRQ line from 5 to 11 and disarmed
C13_Witness ==
    /\ host.ops[2] = <<"write", 512, 75>>
    /\ host.ops[3] = <<"write", 523, 13>>
    /\ myGUS.irq1 = 11
    /\ ~myGUS.ChangeIRQDMA

\* the step is an unmask event on DMA channel c
Unmasks(c) ==
    /\ host'.events = host.events + 1
    /\ host'.ops[3][1] = "dma" /\ host'.ops[3][2] = c

\* the last three operations were an unmask event on channel c that the
\* callback handled, the selection of a register other than DMA control,
\* and one more write: no write of DMA control since the handled event
NoUploadSince(c) ==
    /\ host.ops[1] = <<"dma", c, 1>>
    /\ host.ops[2][1] = "write" /\ host.ops[2][2] = 771
    /\ host.ops[2][3] # 65
    /\ host.ops[3][1] = "write"

\* C15 as stated: a write of the DMA control register (0x41) leaves the
\* callback registered on channel dma1 exactly if bit 0 of the value is set;
\* an unmask event on a channel with the callback registered deregisters it
\* and sets irq_status bit 7 exactly if bit 5 of DMA control is set (a bit 7
\* still set from before stays); an unmask event on a channel without the
\* callback changes neither the sample memory nor the engine's registers
\* and raises no IRQ; and an unmask event that follows a handled one on the
\* channel, at once or after writes that are no write of DMA control, is
\* not handled, changes no byte of the sample memory and leaves irq_status
C15_OneShotDma ==
    [][/\ \A d \in {8448, 256, 49408, 0} :
             (Writes(772, d) /\ myGUS.gRegSelect = 65)
             => /\ myGUS'.DMAControl = d \div 256
                /\ (myGUS.dma1 \in ext'.dmacb) <=> ((d \div 256) % 2 = 1)
       /\ \A c \in DmaChannels :
             /\ Unmasks(c)
                   => IF c \in ext.dmacb
                      THEN /\ ext'.dmacb = ext.dmacb \ {c}
                           /\ Bit(myGUS'.IRQStatus, 7)
                                  = (IF Bit(myGUS.DMAControl, 5) = 1 THEN 1
                                     ELSE Bit(myGUS.IRQStatus, 7))
                      ELSE /\ UNCHANGED <<myGUS, guschan, curchan, GUSRam,
                                          adlib_commandreg, ext, hang>>
                           /\ pic' = {}
             /\ (/\ Unmasks(c)
                 /\ \/ host.ops[3][1] = "dma" /\ host.ops[3][2] = c
                    \/ NoUploadSince(c))
                   => /\ host'.ops[3][3] = 0
                      /\ GUSRam' = GUSRam
                      /\ myGUS'.IRQStatus = myGUS.IRQStatus
      ]_vars

\* what does hold: the callback becomes registered on a channel only in a
\* write, with bit 0 set, of DMA control (0x41) or of sampling control
\* (0x49), and on channel dma1; either write leaves it registered on dma1
\* exactly if bit 0 is set; a handled unmask event transfers as DMA control
\* says and deregisters the callback; an unmask event at once after another
\* on the channel is not handled
OneShotPerRegistration ==
    [][/\ \A d \in {8448, 256, 49408, 0} :
             (Writes(772, d) /\ myGUS.gRegSelect \in {65, 73})
             => /\ (myGUS.dma1 \in ext'.dmacb) <=> ((d \div 256) % 2 = 1)
                /\ myGUS'.DMAControl = (IF myGUS.gRegSelect = 65
                                        THEN d \div 256
                                        ELSE myGUS.DMAControl)
                /\ myGUS'.SampControl = (IF myGUS.gRegSelect = 73
                                         THEN d \div 256
                                         ELSE myGUS.SampControl)
       /\ \A c \in DmaChannels :
             /\ (c \in ext'.dmacb /\ c \notin ext.dmacb)
                   => /\ myGUS.gRegSelect \in {65, 73} /\ c = myGUS.dma1
                      /\ \E d \in {8448, 256, 49408} : Writes(772, d)
             /\ Unmasks(c)
                   => /\ host'.ops[3][3] = (IF c \in ext.dmacb THEN 1 ELSE 0)
                      /\ c \notin ext'.dmacb
             /\ (/\ Unmasks(c)
                 /\ host.ops[3][1] = "dma" /\ host.ops[3][2] = c)
                   => /\ host'.ops[3][3] = 0
                      /\ GUSRam' = GUSRam
                      /\ myGUS'.IRQStatus = myGUS.IRQStatus
      ]_vars

-----------------------------------------------------------------------------
(* SpecDram: the host sets the DRAM pointer through registers 0x43 and 0x44, *)
(* and pokes and peeks bytes at port 0x307.                                  *)

MaxWritesDram == 4

\* select register 0x43 or 0x44; write a data word (pointer low words 5 and
\* 0xFFFF, pointer high bytes 0x0F, 0x10 and 0xFF); poke 0, 7 or 255
DramWrites ==
    {<<771, 67, 1>>, <<771, 68, 1>>}
        \cup {<<772, d, 2>> : d \in {5, 65535, 3840, 4096, 65280}}
        \cup {<<775, b, 1>> : b \in {0, 7, 255}}

InitDram ==
    /\ \E pre \in {<<>>, PokeAt(5, 9), PokeAt(1048575, 3)} :
           Is(After(Construct(3, 5), pre))
    /\ mix = NoMix
    /\ host = NoHost

WriteDram == HostWrite(DramWrites, MaxWritesDram)

PeekDram == HostRead({775}, 1)

NextDram == WriteDram \/ PeekDram

SpecDram == InitDram /\ [][NextDram]_vars

\* what a peek at port 0x307 returns in this state
PeekNow == read_gus(St, 775, 1).ret

\* C14: a poke with the DRAM pointer at or above 2^20 leaves all of the
\* sample memory unchanged, and a peek there returns 0; a poke with the
\* pointer below 2^20 changes only the byte it points at, and a following
\* peek returns the poked byte; a peek changes nothing
C14_DramPointerRange ==
    [][/\ \A b \in {0, 7, 255} :
             Writes(775, b)
             => IF myGUS.gDramAddr >= 1048576
                THEN GUSRam' = GUSRam /\ PeekNow' = 0
                ELSE /\ \A a \in (DOMAIN GUSRam \cup DOMAIN GUSRam')
                                  \ {myGUS.gDramAddr} :
                            Peek(GUSRam', a) = Peek(GUSRam, a)
                     /\ Peek(GUSRam', myGUS.gDramAddr) = b
                     /\ PeekNow' = b
       /\ myGUS.gDramAddr >= 1048576 => PeekNow = 0
       /\ myGUS.gDramAddr \in 0 .. 16777215
       /\ host'.ops[3][1] = "read"
             => UNCHANGED <<myGUS, guschan, curchan, GUSRam, adlib_commandreg,
                            ext, hang>>
      ]_vars

\* C14 witness: memory holds a byte, and the host has just poked with the
\* pointer at or above 2^20
C14_Witness ==
    /\ host.ops[3][1] = "write" /\ host.ops[3][2] = 775
    /\ host.ops[3][3] # 0
    /\ myGUS.gDramAddr >= 1048576
    /\ DOMAIN GUSRam # {}

-----------------------------------------------------------------------------
(* SpecRange: one 8-bit voice whose ramp or wave address is programmed at    *)
(* the edge of its range, mixed block after block.                           *)

MaxFramesRange == 6

RangeLens == {1, 2}

\* ramps from the current volume 4095 or 5 at rate 63, between 0 and 4080,
\* between 4080 and 4080, and from 4080 to 0, looping, bidirectional or
\* stopping, up or down; the wave loops over four samples
RampConfigs ==
    {[freq |-> 1024, start |-> 0, end |-> 2048, addr |-> 0, rate |-> 63,
      rstart |-> r[1], rend |-> r[2], vol |-> r[3], pan |-> 7,
      rctrl |-> rc, wctrl |-> 8] :
        r \in {<<0, 255, GUS_VOLUME_POSITIONS - 1>>, <<0, 255, 5>>,
               <<255, 255, GUS_VOLUME_POSITIONS - 1>>, <<255, 0, 5>>},
        rc \in {0, 8, 24, 64, 72}}

\* waves at the top of the address registers' range going up, and at address
\* 0 going down, with and without rollover, at full volume, the ramp idle
WaveConfigs ==
    {[freq |-> 1024, start |-> 0, end |-> b[1], addr |-> b[2], rate |-> 0,
      rstart |-> 0, rend |-> 0, vol |-> GUS_VOLUME_POSITIONS - 1, pan |-> 7,
      rctrl |-> rc, wctrl |-> b[3]] :
        b \in {<<2048, 536870400, 0>>, <<536870400, 536870400, 8>>,
               <<2048, 0, 64>>, <<2048, 512, 72>>},
        rc \in {1, 5}}

InitRange ==
    /\ \E c \in RampConfigs \cup WaveConfigs :
           Is(After(Construct(3, 5),
                      Activate(GUS_MIN_CHANNELS) \o VoiceRam \o VoiceSetup(0, c)))
    /\ mix = NoMix
    /\ host = NoHost

MixRange == MixCallback(RangeLens, MaxFramesRange)

NextRange == MixRange

SpecRange == InitRange /\ [][NextRange]_vars

\* C17 as stated: every voice's ramp_cur is in [0, 4095] in every state, and
\* so is the index every generated frame reads the volume table at
C17_VolIndexInRange ==
    /\ \A i \in Voices : guschan[i].CurrentVolIndex \in 0 .. 4095
    /\ \A e \in Frames : e.Vol \in 0 .. 4095

\* what does hold for the ramps of RampConfigs: one that is inside
\* [ramp_start, ramp_end] when a block starts is inside it when the block ends
RampStaysInsideBounds ==
    \A i \in Voices :
        (/\ mix.len > 0
         /\ mix.start[i].StartVolIndex <= mix.start[i].CurrentVolIndex
         /\ mix.start[i].CurrentVolIndex <= mix.start[i].EndVolIndex)
        => /\ guschan[i].StartVolIndex <= guschan[i].CurrentVolIndex
           /\ guschan[i].CurrentVolIndex <= guschan[i].EndVolIndex

\* C18 as stated: every frame of a voice with the 8-bit sampler reads the
\* sample memory at (wave_addr >> 9) mod 2^20, an index below 2^20
C18_FetchWraps ==
    \A e \in Frames :
        Bit(e.WaveCtrl, 2) = 0
        => /\ e.read = Shr32(e.WaveAddr, 9) % 1048576
           /\ e.read < 1048576

\* what does hold: the 8-bit sampler reads at wave_addr >> 9, not reduced
FetchAtShiftedAddr ==
    \A e \in Frames :
        Bit(e.WaveCtrl, 2) = 0 => e.read = Shr32(e.WaveAddr, 9)

-----------------------------------------------------------------------------
(* Spec: from construction the host selects voice 0, selects the frequency,  *)
(* ramp rate and active-voices registers and writes data words to them, and  *)
(* the mixer asks for a frame now and then.                                  *)

MaxWrites == 5

MaxFrames == 2

\* data words: odd and even frequencies, the extremes, and ramp rates of
\* every divider
DataWords == {1, 1023, 2048, 65535}

MainWrites ==
    {<<770, 0, 1>>, <<771, 1, 1>>, <<771, 6, 1>>, <<771, 14, 1>>}
        \cup {<<772, d, 2>> : d \in DataWords}

Init ==
    /\ Is(Construct(3, 5))
    /\ mix = NoMix
    /\ host = NoHost

Write == HostWrite(MainWrites, MaxWrites)

Mix == MixCallback({1}, MaxFrames)

Next == Write \/ Mix

Spec == Init /\ [][Next]_vars

\* C2 as stated: in every reachable state, from construction onward, the
\* active-voice count is in [14, 32] and active_mask has exactly the low
\* active_voices bits set
C2_ActiveVoicesInRange ==
    /\ myGUS.ActiveChannels \in GUS_MIN_CHANNELS .. GUS_MAX_CHANNELS
    /\ myGUS.ActiveMask = 0 .. (myGUS.ActiveChannels - 1)

\* what does hold: the count is 0 with an empty mask until the first write
\* of register 0x0E, and in [14, 32] with the matching mask from then on
ActiveVoicesZeroOrInRange ==
    /\ myGUS.ActiveChannels \in {0} \cup (GUS_MIN_CHANNELS .. GUS_MAX_CHANNELS)
    /\ myGUS.ActiveMask = 0 .. (myGUS.ActiveChannels - 1)

\* C10: a 16-bit frequency f written to a voice's frequency register is
\* stored as wave_freq = f; every voice has wave_add = ceil(wave_freq / 2);
\* and re-applying the stored frequency and ramp rate, as a write of the
\* active-voices register does, leaves wave_add and ramp_incr as they are
C10_FrequencyRoundTrip ==
    /\ (/\ host.ops[3][1] = "write" /\ host.ops[3][2] = 772
        /\ myGUS.gRegSelect = 1 /\ curchan # NoChan)
       => guschan[curchan].WaveFreq = host.ops[3][3]
    /\ \A i \in Voices :
           /\ guschan[i].WaveFreq \in 0 .. 65535
           /\ 2 * guschan[i].WaveAdd \in {guschan[i].WaveFreq,
                                          guschan[i].WaveFreq + 1}
           /\ UpdateWaveRamp(guschan[i]).WaveAdd = guschan[i].WaveAdd
           /\ UpdateWaveRamp(guschan[i]).IncrVolIndex
                  = guschan[i].IncrVolIndex

\* C10 witness: an odd frequency has been written to voice 0, and a write of
\* the active-voices register has just re-applied it
C10_Witness ==
    /\ guschan[0].WaveFreq % 2 = 1
    /\ host.ops[2] = <<"write", 771, 14>>
    /\ host.ops[3][1] = "write" /\ host.ops[3][2] = 772
    /\ myGUS.ActiveChannels >= GUS_MIN_CHANNELS

-----------------------------------------------------------------------------
(* SpecTimer: the host commands the two timers through port 0x209, resets    *)
(* the card, and the PIC delivers the expiry events it was asked for; the    *)
(* emulator may shut down.  The card is configured in one of the ways of     *)
(* TimerCards.                                                               *)

MaxWritesTimer == 3

MaxEventsTimer == 3

\* what the host has done before: timer IRQs off; both timers raising IRQs;
\* timer 1 raising IRQs with the mix control's latch bit 3 off.  Each leaves
\* the reset register selected.
TimerPreludes ==
    {<<<<771, 76, 1>>>>,
     SetReg(69, 12 * 256) \o <<<<771, 76, 1>>>>,
     SetReg(69, 4 * 256) \o <<<<512, 3, 1>>, <<771, 76, 1>>>>}

\* timer commands: stop both, start the first, start both, start the first
\* and mask it, start both and mask the second, reset the flags (alone and
\* with every other bit of a command set); a reset of the card
TimerWrites ==
    {<<521, c, 1>> : c \in {0, 1, 3, 65, 35, 128, 227}}
        \cup {<<772, 1, 2>>}

\* <<gus, gusdma, gusirq>> of the configuration: the defaults, values the
\* constructor replaces by the defaults, and no card
TimerCards == {<<TRUE, 3, 5>>, <<TRUE, 256, 0 - 1>>, <<FALSE, 3, 5>>}

InitTimer ==
    /\ \E pre \in TimerPreludes, card \in TimerCards :
           Is(After(GUS_Init(Boot, card[1], card[2], card[3]), pre))
    /\ mix = NoMix
    /\ host = NoHost

WriteTimer == HostWrite(TimerWrites, MaxWritesTimer)

ExpireTimer == TimerExpiry(MaxEventsTimer)

ShutDownTimer == ShutDown

NextTimer == WriteTimer \/ ExpireTimer \/ ShutDownTimer

SpecTimer == InitTimer /\ [][NextTimer]_vars

\* the step is the PIC's delivery of an expiry event of timer val
Expires(val) ==
    /\ host'.events = host.events + 1
    /\ host'.ops[3] = <<"timer", 0, val>>

\* how many expiry events of timer val the PIC holds
Pending(val) == Cardinality({k \in DOMAIN ext.events : ext.events[k] = val})

\* the effect of an expiry of timer val on the timer's flags and on the
\* PIC's queue
ExpiryFlags(val) ==
    LET t == myGUS.timers[val + 1]
    IN  /\ myGUS'.timers[val + 1].reached = (IF t.masked THEN t.reached ELSE TRUE)
        /\ t.raiseirq => Bit(myGUS'.IRQStatus, 2 + val) = 1
        /\ Pending(val)' = Pending(val) - 1 + (IF t.running THEN 1 ELSE 0)

\* C22 as stated: on the expiry of timer t, reached[t] becomes true unless
\* the timer is masked; if raise_irq[t] is set the status bit of the timer is
\* set and the PIC is notified; a new event is scheduled iff running[t]
C22_ExpiryNotifiesPic ==
    [][\A val \in {0, 1} :
          Expires(val)
          => /\ ExpiryFlags(val)
             /\ myGUS.timers[val + 1].raiseirq => pic' = {myGUS.irq1}]_vars

\* C22, amended: the same, but the PIC is notified iff bit 3 of the mix
\* control is set (and never when raise_irq[t] is clear and irq_status is 0)
C22_ExpiryNotifiesIfLatched ==
    [][\A val \in {0, 1} :
          Expires(val)
          => /\ ExpiryFlags(val)
             /\ myGUS.timers[val + 1].raiseirq
                => pic' = (IF Bit(myGUS.mixControl, 3) = 1 THEN {myGUS.irq1}
                           ELSE {})
             /\ ~myGUS.timers[val + 1].raiseirq
                => pic' = {} /\ myGUS'.IRQStatus = myGUS.IRQStatus]_vars

\* C22 witness: a masked, running timer that raises IRQs has expired: its
\* status bit is set, reached is not, and the next event is queued
C22_Witness ==
    /\ host.ops[3] = <<"timer", 0, 0>>
    /\ myGUS.timers[1].masked /\ myGUS.timers[1].running
    /\ myGUS.timers[1].raiseirq
    /\ ~myGUS.timers[1].reached
    /\ Bit(myGUS.IRQStatus, 2) = 1
    /\ pic = {myGUS.irq1}
    /\ Pending(0) = 1

\* the timers after command val without the reset-flags bit
Commanded(val) ==
    [t \in {1, 2} |->
        [myGUS.timers[t] EXCEPT
            !.masked = (Bit(val, IF t = 1 THEN 6 ELSE 5) = 1),
            !.running = (Bit(val, t - 1) = 1)]]

\* C23: a write to port 0x209 with bit 7 set clears both reached flags and
\* changes nothing else; one without it sets masked[0] from bit 6, masked[1]
\* from bit 5 and running[t] from bit t, and asks the PIC for an event of
\* timer t exactly when the timer goes from not running to running
C23_TimerCommand ==
    [][\A val \in {0, 1, 3, 65, 35, 128, 227} :
          Writes(521, val)
          => /\ UNCHANGED <<guschan, curchan, GUSRam, adlib_commandreg, hang>>
             /\ pic' = {}
             /\ IF Bit(val, 7) = 1
                THEN /\ myGUS' = [myGUS EXCEPT !.timers[1].reached = FALSE,
                                               !.timers[2].reached = FALSE]
                     /\ ext' = ext
                ELSE /\ myGUS' = [myGUS EXCEPT !.timers = Commanded(val)]
                     /\ \A t \in {0, 1} :
                           Pending(t)' = Pending(t)
                               + (IF Bit(val, t) = 1
                                     /\ ~myGUS.timers[t + 1].running
                                  THEN 1 ELSE 0)]_vars

\* C23 witness: timer 1 was started and expired, and the host has then
\* written 0xE3: reached is cleared, the timer still runs unmasked and its
\* next event is still pending
C23_Witness ==
    /\ host.ops[1] = <<"write", 521, 1>>
    /\ host.ops[2] = <<"timer", 0, 0>>
    /\ host.ops[3] = <<"write", 521, 227>>
    /\ myGUS.timers[1].running
    /\ ~myGUS.timers[1].masked
    /\ ~myGUS.timers[1].reached
    /\ ~myGUS.timers[2].running
    /\ Pending(0) = 1

\* C27 as stated: the PIC never holds more than one expiry event of a timer
C27_OneEventPerTimer == \A val \in {0, 1} : Pending(val) <= 1

\* what does hold: a running timer always has an expiry event pending
RunningHasEvent ==
    \A val \in {0, 1} : myGUS.timers[val + 1].running => Pending(val) >= 1

\* C28 as stated: the expiry of a timer that is not running (stopped by port
\* 0x209 or by a reset, and not started since) changes neither its reached
\* flag nor its bit of irq_status
C28_StoppedTimerSilent ==
    [][\A val \in {0, 1} :
          (Expires(val) /\ ~myGUS.timers[val + 1].running)
          => /\ myGUS'.timers[val + 1].reached = myGUS.timers[val + 1].reached
             /\ Bit(myGUS'.IRQStatus, 2 + val) = Bit(myGUS.IRQStatus, 2 + val)
       ]_vars

\* what does hold: a timer with no event pending is never touched by an
\* expiry, and the expiry of a stopped timer asks for no further event
StoppedTimerDrains ==
    [][\A val \in {0, 1} :
          (Expires(val) /\ ~myGUS.timers[val + 1].running)
          => /\ Pending(val) >= 1
             /\ Pending(val)' = Pending(val) - 1
             /\ myGUS'.timers[2 - val] = myGUS.timers[2 - val]]_vars

-----------------------------------------------------------------------------
(* SpecRate: the host writes a ramp rate to register 0x06 of voice 0 or of   *)
(* voice 31 through port 0x305.                                              *)

MaxWritesRate == 1

\* every 8-bit ramp rate, written to the high data byte
RateWrites == {<<773, r, 1>> : r \in 0 .. 255}

InitRate ==
    /\ \E i \in {0, GUS_MAX_CHANNELS - 1} :
           Is(After(Construct(3, 5), <<<<770, i, 1>>, <<771, 6, 1>>>>))
    /\ mix = NoMix
    /\ host = NoHost

WriteRate == HostWrite(RateWrites, MaxWritesRate)

NextRate == WriteRate

SpecRate == InitRate /\ [][NextRate]_vars

\* the host has just written a ramp rate to the selected voice
RateWritten ==
    /\ host.ops[3][1] = "write" /\ host.ops[3][2] = 773
    /\ myGUS.gRegSelect = 6
    /\ curchan # NoChan

\* ceil(scale / divider) for positive divider, with no truncation
CeilQuotient(scale, divider) == (scale + divider - 1) \div divider

\* C24 as stated: after a write of rate r, the voice's ramp increment is 0
\* when r AND 0x3F is 0 and otherwise ceil((r AND 0x3F) / 2^(3 * (r >> 6))),
\* which is 1 for every rate in 0xC1 .. 0xFF
C24_RampIncrement ==
    RateWritten
    => LET r == host.ops[3][3]
       IN  guschan[curchan].IncrVolIndex
               = CeilQuotient(r % 64, 2^(3 * (r \div 64)))

\* what does hold: the formula for the rates below 0xC0, and an increment of 0
\* for every rate from 0xC0 up
RampIncrementBelowC0 ==
    RateWritten
    => LET r == host.ops[3][3]
       IN  /\ guschan[curchan].RampRate = r
           /\ guschan[curchan].IncrVolIndex
                  = (IF r >= 192 THEN 0
                     ELSE CeilQuotient(r % 64, 2^(3 * (r \div 64))))

-----------------------------------------------------------------------------
(* SpecInterp: a 16-bit voice at full volume, panned hard left, steps by     *)
(* half a sample over two words of sample memory, one frame per callback.    *)

MaxFramesInterp == 2

\* the bytes tried for the low and the high byte of the second word
InterpBytes == {0, 1, 127, 128, 255}

\* the first word is 0 or 100; the second every pair of InterpBytes
InterpRams ==
    {PokeAt(0, b0) \o PokeAt(2, b2) \o PokeAt(3, b3) :
        b0 \in {0, 100}, b2 \in InterpBytes, b3 \in InterpBytes}

\* the voice starts a quarter or a half of a sample into the first word
InterpConfigs ==
    {[freq |-> WAVE_FRACT_ONE, start |-> 0, end |-> 4 * WAVE_FRACT_ONE,
      addr |-> a, rate |-> 0, rstart |-> 0, rend |-> 0,
      vol |-> GUS_VOLUME_POSITIONS - 1, pan |-> 0, rctrl |-> 1,
      wctrl |-> WCTRL_16BIT] : a \in {128, 256}}

InitInterp ==
    /\ \E ram \in InterpRams, c \in InterpConfigs :
           Is(After(Construct(3, 5),
                      Activate(GUS_MIN_CHANNELS) \o ram \o VoiceSetup(0, c)))
    /\ mix = NoMix
    /\ host = NoHost

MixInterp == MixCallback({1}, MaxFramesInterp)

NextInterp == MixInterp

SpecInterp == InitInterp /\ [][NextInterp]_vars

\* the signed 16-bit little-endian value stored at a
Signed16At(ram, a) == Peek(ram, a) + Int8(Peek(ram, a + 1)) * 256

\* the float nearest to w1 + (w2 - w1) * frac / 2^9
Interpolated(w1, w2, frac) ==
    LET n == w1 * WAVE_FRACT_ONE + (w2 - w1) * frac
    IN  IF n = 0 THEN 0
        ELSE FRound(IF n < 0 THEN 0 - 1 ELSE 1, Abs(n), 150 - WAVE_FRACT,
                    FALSE)

\* frame k of the last callback was generated by a 16-bit voice stepping by
\* less than a sample, at full volume and panned hard left, so that what it
\* added to the left accumulator is the sample itself
InterpFrame(k) ==
    LET e == mix.frames[k]
        v == mix.start[e.voice]
    IN  /\ v.getSample = "GetSample16"
        /\ v.WaveAdd < WAVE_FRACT_ONE
        /\ v.PanPot = 0
        /\ e.Vol = GUS_VOLUME_POSITIONS - 1

\* C25 as stated: under sub-sample stepping the 16-bit sampler interpolates
\* toward the signed 16-bit little-endian value stored at addr + 2
C25_NextSampleSigned16 ==
    \A k \in DOMAIN mix.frames :
        InterpFrame(k)
        => mix.frames[k].add[1]
               = Interpolated(Signed16At(GUSRam, mix.frames[k].read),
                              Signed16At(GUSRam, mix.frames[k].read + 2),
                              mix.frames[k].WaveAddr % WAVE_FRACT_ONE)

\* what does hold: the same when memory[addr + 2] is below 0x80; from 0x80 up
\* the next sample is memory[addr + 2] - 256, whatever memory[addr + 3] is
NextSampleLowByteSigned ==
    \A k \in DOMAIN mix.frames :
        InterpFrame(k)
        => LET a == mix.frames[k].read
               w2 == IF Peek(GUSRam, a + 2) < 128
                     THEN Signed16At(GUSRam, a + 2)
                     ELSE Peek(GUSRam, a + 2) - 256
           IN  mix.frames[k].add[1]
                   = Interpolated(Signed16At(GUSRam, a), w2,
                                  mix.frames[k].WaveAddr % WAVE_FRACT_ONE)

-----------------------------------------------------------------------------
(* Rollover, over the voices of SpecVoice.                                   *)

\* the frame e was generated by a running voice in rollover mode that reached
\* the boundary it was heading for
RolledOver(e) ==
    /\ ~HasBits(e.WaveCtrl, WCTRL_STOPPED + WCTRL_STOP)
    /\ Bit(e.RampCtrl, 2) = 1
    /\ ReachedBoundary(e)

\* C26: a frame that reaches a boundary with ramp_ctrl bit 2 set sets the
\* voice's wave_irq bit if wave_ctrl bit 5 is set, and does nothing else:
\* wave_ctrl is as before, and wave_addr is the address before the frame plus
\* or minus wave_add, neither wrapped nor snapped
C26_RolloverOnlyIrq ==
    \A e \in Frames :
        RolledOver(e)
        => /\ e.WaveCtrl1 = e.WaveCtrl
           /\ e.WaveAddr1 = (IF Bit(e.WaveCtrl, 6) = 1
                             THEN Sub32(e.WaveAddr, guschan[e.voice].WaveAdd)
                             ELSE Add32(e.WaveAddr, guschan[e.voice].WaveAdd))
           /\ e.wirq = (e.wirq0 \/ Bit(e.WaveCtrl, 5) = 1)

\* C26 witness: a forward voice with loop, bidirectional and IRQ bits set
\* has gone past wave_end in rollover mode, raising its wave IRQ
C26_Witness ==
    \E e \in Frames :
        /\ RolledOver(e)
        /\ e.WaveCtrl = WCTRL_LOOP + WCTRL_BIDIRECTIONAL + WCTRL_IRQENABLED
        /\ ~e.wirq0 /\ e.wirq
        /\ e.WaveAddr1 > guschan[e.voice].WaveEnd

-----------------------------------------------------------------------------
(* SpecEdge: the DMA address register and a 16-bit voice's address are       *)
(* programmed at and near the top of their ranges; the DMA controller        *)
(* delivers a transfer and the mixer asks for frames, one at a time or more  *)
(* than the callback has room for; the emulator may shut down and call       *)
(* GUS_Init again, and the host may write the voice register it had          *)
(* selected.                                                                 *)

MaxEventsEdge == 1

MaxWritesEdge == 1

MaxInitsEdge == 2

MaxFramesEdge == 2

\* one frame more than accumulator and scaled hold
LongLen == GUS_BUFFER_FRAMES + 1

\* one frame more than a uint8_t counts
EndlessLen == 256

\* DMA address register values: the bottom, the top, and the top of what
\* the 16-bit address translation keeps
EdgeDmaAddrs == {0, 65535, 16383}

\* DMA control values with the enable bit: 8-bit channel, 16-bit channel
\* (address translated), MSB inverted, MSB inverted on 16-bit data
EdgeDmaCtrls == {1, 5, 129, 197}

\* what the channel's Read delivers: two bytes, or 32
EdgeDatas == {<<1, 200>>, [k \in 1 .. 32 |-> 128]}

\* a 16-bit voice at the first sample, the last but one or the last that the
\* address registers can name, stepping by half a sample or by a whole one
EdgeVoices ==
    {[freq |-> f, start |-> 0, end |-> 536870400, addr |-> a, rate |-> 0,
      rstart |-> 0, rend |-> 0, vol |-> GUS_VOLUME_POSITIONS - 1, pan |-> 7,
      rctrl |-> 1, wctrl |-> WCTRL_16BIT] :
        f \in {WAVE_FRACT_ONE, 2 * WAVE_FRACT_ONE},
        a \in {0, 536870400 - WAVE_FRACT_ONE, 536870400}}

InitEdge ==
    /\ \E a \in EdgeDmaAddrs, c \in EdgeDmaCtrls, v \in EdgeVoices :
           Is(After(Construct(3, 5),
                    Activate(GUS_MIN_CHANNELS) \o SetReg(66, a)
                        \o SetReg(65, c * 256) \o VoiceSetup(0, v)))
    /\ mix = NoMix
    /\ host = NoHost

EventEdge == DmaUnmask({3}, EdgeDatas, MaxEventsEdge)

MixEdge == MixCallback({1}, MaxFramesEdge)

\* the mixer's first call asks for LongLen frames, or for EndlessLen
LongEdge == MixCallback({LongLen}, LongLen)

EndlessEdge == MixCallback({EndlessLen}, EndlessLen)

\* the write of the high byte of the selected register, the voice's wave
\* control, which is stored through curchan: the voice is stopped
WriteEdge == HostWrite({<<773, 3, 1>>}, MaxWritesEdge)

ShutDownEdge == ShutDown

RestartEdge == Restart({<<TRUE, 3, 5>>}, MaxInitsEdge)

NextEdge ==
    \/ EventEdge
    \/ MixEdge
    \/ LongEdge
    \/ EndlessEdge
    \/ WriteEdge
    \/ ShutDownEdge
    \/ RestartEdge

SpecEdge == InitEdge /\ [][NextEdge]_vars

\* the highest index of GUSRam the frame e read: the high byte of the
\* current sample, or of the next one when the voice steps by less than a
\* sample
LastRead16(e) ==
    e.read + (IF guschan[e.voice].WaveAdd < WAVE_FRACT_ONE THEN 3 ELSE 1)

\* C29 as stated: every byte of a DMA transfer, and every byte the 16-bit
\* sampler reads, is at an index of the sample memory below 2^20
C29_AccessInsideMemory ==
    /\ host.dma[2] <= GUS_RAM_SIZE
    /\ \A e \in Frames :
          Bit(e.WaveCtrl, 2) = 1 => LastRead16(e) < GUS_RAM_SIZE

\* what does hold: a DMA transfer starts inside the memory, and the two
\* bytes of the 16-bit sampler's current sample are inside it
AccessStartsInsideMemory ==
    /\ host.dma[1] < GUS_RAM_SIZE
    /\ \A e \in Frames : Bit(e.WaveCtrl, 2) = 1 => e.read + 1 < GUS_RAM_SIZE

-----------------------------------------------------------------------------
(* The limiter's bound, over the blocks of SpecLimit.                        *)

\* C30: when the voices of a block have been generated each channel's peak
\* is at least the magnitude of every accumulator slot of that channel, and
\* every sample handed to the mixer has a magnitude of at most INT16_MAX - 1
C30_EmittedFitsInt16 ==
    \A k \in 1 .. mix.len :
        /\ Abs(mix.accumulator[k][1]) <= mix.peak.left
        /\ Abs(mix.accumulator[k][2]) <= mix.peak.right
        /\ Abs(mix.scaled[k][1]) <= INT16_MAX - 1
        /\ Abs(mix.scaled[k][2]) <= INT16_MAX - 1

\* C30 witness: in the first block after the reset of construction, with
\* the peaks starting from 1.0, two voices add up to more than twice the
\* threshold on the left, and the sample comes out within 1/1000 of
\* INT16_MAX - 1
C30_Witness ==
    /\ host.frames = mix.len
    /\ mix.limited
    /\ \E k \in 1 .. mix.len :
          /\ mix.accumulator[k][1] > FFromInt(2 * (INT16_MAX - 1))
          /\ 1000 * mix.scaled[k][1] >= 999 * (INT16_MAX - 1)

====
